---- MODULE Spec2Model ----
(***************************************************************************)
(* A model of the multi-agent optimisation orchestrator of parallelproof:  *)
(* the coordinator run_optimization (app/api/optimization.py), the agents  *)
(* AgentOptimizer.optimize (app/agents/optimizer.py) and the fork          *)
(* provisioner ForkManager (app/services/fork_manager.py).                 *)
(*                                                                         *)
(* Every await of the code is one step of the model.  A call to the        *)
(* relational store, to the broadcast hub or to the provisioning backend   *)
(* either returns or raises; the model draws the outcome with \E.          *)
(***************************************************************************)
EXTENDS Integers, Sequences, FiniteSets, TLC

\* ------------------------------------------------------------------ bounds
\* The largest num_agents a request of the model asks for.
MaxAgents == 3
\* The longest result list the winner selection is applied to on its own.
MaxResults == 5
\* The most external commands a ForkManager tried on its own issues.
MaxCmds == 3
\* The number of runs that are in progress at once, and the largest
\* num_agents of such a run.
MaxTasks == 2
MaxTaskAgents == 2
\* The number of websockets that connect for the task of the hub.
MaxSockets == 3
\* The number of rows of optimization_patterns in the searched category.
MaxPatterns == 3
\* The longest improvement string handed to _parse_improvement on its own.
MaxLen == 4
\* The most environments requested when agents are built on their own.
MaxRequested == 10
\* The most agents of one task on the event loop.
MaxLoopAgents == 3
\* The most agent results of the task get_task_status is asked about.
MaxRows == 3

\* ------------------------------------------------------- program constants
\* len(STRATEGIES): the catalog holds eight strategies.
NumStrategies == 8
\* best_improvement = -1, the value the winner search starts from.
InitialBestImprovement == -1
\* k = 60, the constant of the reciprocal rank fusion.
RRFK == 60
\* limit=3, what optimize asks hybrid_search for.
SearchLimit == 3

\* The values _parse_improvement hands back to an agent of a run (percent),
\* and the values of the result lists the winner selection is tried on.
ImprovementValues == {-5, 0, 30}
SelValues == {-5, 0, 30, 45}

\* Python's None and an optional value, as sequences of length 0 and 1.
None == <<>>
Some(x) == <<x>>

VARIABLES
    use_virtual_forks,  \* ForkManager.use_virtual_forks, deployment wide
    num_agents,         \* the request's num_agents
    pc,                 \* position of the coordinator in run_optimization
    outcome,            \* "running", "returned" or "raised" (run_optimization)
    exc,                \* the exception the except clause of the run caught
    faults,             \* history: the coordinator steps that raised or failed
    task_status,        \* optimization_tasks.status ("none": no row)
    best_result_id,     \* optimization_tasks.best_result_id
    events,             \* the messages handed to manager.broadcast, in order
    fork_state,         \* per requested index: progress of create_fork
    forks,              \* ForkManager.forks (the names it tracks)
    fork_ids,           \* what create_parallel_forks returned
    agents,             \* the AgentOptimizer objects, in construction order
    agent_state,        \* per agent: position and locals of optimize
    agent_rows,         \* agent_results: per agent, the rows inserted for it
    results,            \* what asyncio.gather returned
    ri,                 \* how many results the broadcast loop has processed
    successful_results, \* the local successful_results
    best_result,        \* the local best_result
    looked_up,          \* the local best_result_id (what fetchval returned)
    cleanup_arg,        \* the argument of the cleanup_forks call, if made
    del_state,          \* per requested index: progress of delete_fork
    deleted,            \* per requested index: releases performed
    sel_in,             \* winner selection on its own: the result list
    sel_out,            \* winner selection on its own: the selected result
    fm_forks,           \* one ForkManager on its own: the names it tracks
    fm_cmds,            \* ... the external commands it has issued, in order
    fm_last,            \* ... history: the last call made on it
    tasks,              \* concurrent runs: per task, its forks and agents
    active_connections, \* ConnectionManager.active_connections
    endpoints,          \* per websocket: position of websocket_endpoint
    bc,                 \* the broadcast call in progress, if any
    hs,                 \* one hybrid_search call: position and locals
    improvement_str,    \* _parse_improvement on its own: its argument
    parsed,             \* _parse_improvement on its own: what it returned
    gs,                 \* the event loop running the agents of one task
    built,              \* agent construction on its own: the agents built
    view                \* one get_task_status call on a completed task

runVars == <<use_virtual_forks, num_agents, pc, outcome, exc, faults,
             task_status, best_result_id, events, fork_state, forks,
             fork_ids, agents, agent_state, agent_rows, results, ri,
             successful_results, best_result, looked_up, cleanup_arg,
             del_state, deleted>>
selVars == <<sel_in, sel_out>>
fmVars == <<fm_forks, fm_cmds, fm_last>>
cmVars == <<active_connections, endpoints, bc>>
parseVars == <<improvement_str, parsed>>
compVars == <<gs, built, view>>
auxVars == <<fmVars, tasks, cmVars, hs, parseVars, compVars>>
restVars == <<selVars, auxVars>>
vars == <<runVars, selVars, auxVars>>

\* ----------------------------------------------------------------- helpers
Indices == 0 .. (num_agents - 1)

\* create_fork: f"main-{agent_id}" on the free tier, f"agent-{agent_id}" else.
ForkName(i) == <<IF use_virtual_forks THEN "main" ELSE "agent", i>>

\* The set of the elements of a sequence.
Range(s) == {s[k] : k \in 1 .. Len(s)}

\* create_parallel_forks without the filter on exceptions: a name for every
\* requested index, whatever became of its create_fork.
RECURSIVE SuccessfulForksUnfiltered(_, _, _)
SuccessfulForksUnfiltered(i, n, st) ==
    IF i >= n THEN <<>>
    ELSE <<ForkName(i)>> \o SuccessfulForksUnfiltered(i + 1, n, st)

\* The list create_parallel_forks builds: the names of the indices i .. n-1
\* whose create_fork succeeded, in index order.
RECURSIVE SuccessfulForks(_, _, _)
SuccessfulForks(i, n, st) ==
    IF i >= n THEN <<>>
    ELSE (IF st[i] = "ok" THEN <<ForkName(i)>> ELSE <<>>)
         \o SuccessfulForks(i + 1, n, st)

\* The messages of the push channel.
TaskStarted == [type |-> "task_started", num_agents |-> num_agents]
\* forks_created with the requested number for the obtained one.
ForksCreatedCountsRequested ==
    [type |-> "forks_created", count |-> num_agents, requested |-> num_agents]
ForksCreated == [type |-> "forks_created", count |-> Len(fork_ids),
                 requested |-> num_agents]
AgentCompleted(r) == [type |-> "agent_completed", data |-> r]
Complete(succ, best) == [type |-> "complete", total_agents |-> Len(agents),
                         successful_agents |-> Len(succ), best_result |-> best]
Error(e) == [type |-> "error", error |-> e]

\* The agents built from the index the fork was requested with instead of
\* its position in the obtained list.
NewAgentsByRequestIndex(ids) ==
    [k \in 1 .. Len(ids) |->
        [agent_id |-> ids[k][2], fork_id |-> ids[k],
         strategy |-> ids[k][2] % NumStrategies]]

\* The agents the coordinator builds: agent-i on the i-th obtained fork, with
\* the strategy STRATEGIES[i % len(STRATEGIES)].
NewAgents(ids) ==
    [k \in 1 .. Len(ids) |->
        [agent_id |-> k - 1, fork_id |-> ids[k],
         strategy |-> (k - 1) % NumStrategies]]

\* The locals of one optimize call.
AgentStart == [pc |-> "search", context |-> "", improvement |-> None,
               explanation |-> "", exc |-> None, ret |-> None]

\* The winner search with `>=` for `>`: of equal improvements the last wins.
RECURSIVE FindBestLastWins(_, _, _, _)
FindBestLastWins(rs, k, best_improvement, best) ==
    IF k > Len(rs) THEN best
    ELSE IF rs[k].status = "completed"
            /\ rs[k].improvement_percent >= best_improvement
         THEN FindBestLastWins(rs, k + 1, rs[k].improvement_percent, Some(rs[k]))
         ELSE FindBestLastWins(rs, k + 1, best_improvement, best)

\* The winner search of run_optimization: the first completed result whose
\* improvement is greater than every one before it, starting from -1.
RECURSIVE FindBest(_, _, _, _)
FindBest(rs, k, best_improvement, best) ==
    IF k > Len(rs) THEN best
    ELSE IF rs[k].status = "completed"
            /\ rs[k].improvement_percent > best_improvement
         THEN FindBest(rs, k + 1, rs[k].improvement_percent, Some(rs[k]))
         ELSE FindBest(rs, k + 1, best_improvement, best)

BestResult(rs) == FindBest(rs, 1, InitialBestImprovement, None)

\* ------------------------------------------------------------------- Init
SelIdle == sel_in = <<>> /\ sel_out = None

\* No ForkManager, run, hub, search or parser of the component
\* specifications below is in use.
FmIdle == fm_forks = {} /\ fm_cmds = <<>> /\ fm_last = None
TasksIdle == tasks = <<>>
BcIdle == [pc |-> "idle"]
CmIdle == active_connections = <<>> /\ endpoints = <<>> /\ bc = BcIdle
HsIdle == hs = [pc |-> "idle"]
ParseIdle == improvement_str = <<>> /\ parsed = None
GsIdle == gs = [pc |-> "idle"]
BuiltIdle == built = [pc |-> "idle"]
ViewIdle == view = [pc |-> "idle"]
CompIdle == GsIdle /\ BuiltIdle /\ ViewIdle

\* The state of a run before the request has been handled (p = "submit"),
\* or of no run at all (p = "idle").
RunInit(p) ==
    /\ use_virtual_forks \in BOOLEAN
    /\ num_agents \in 1 .. MaxAgents
    /\ pc = p
    /\ outcome = "running"
    /\ exc = None
    /\ faults = {}
    /\ task_status = "none"
    /\ best_result_id = None
    /\ events = <<>>
    /\ fork_state = [i \in Indices |-> "todo"]
    /\ forks = {}
    /\ fork_ids = <<>>
    /\ agents = <<>>
    /\ agent_state = <<>>
    /\ agent_rows = <<>>
    /\ results = <<>>
    /\ ri = 0
    /\ successful_results = <<>>
    /\ best_result = None
    /\ looked_up = None
    /\ cleanup_arg = None
    /\ del_state = [i \in Indices |-> "idle"]
    /\ deleted = [i \in Indices |-> 0]

Init ==
    /\ RunInit("submit")
    /\ SelIdle /\ FmIdle /\ TasksIdle /\ CmIdle /\ HsIdle /\ ParseIdle /\ CompIdle

\* ------------------------------------------------------- control transfer
cfgVars == <<use_virtual_forks, num_agents>>
dbVars == <<task_status, best_result_id, agent_rows>>
forkVars == <<fork_state, forks, fork_ids>>
cleanVars == <<cleanup_arg, del_state, deleted>>
agentVars == <<agents, agent_state>>
locVars == <<results, ri, successful_results, best_result, looked_up>>

\* The coroutine goes on to its next await.
Goto(p) == pc' = p /\ UNCHANGED <<outcome, exc, faults>>

\* A step inside the try block raises e: `except Exception as e` catches it.
Raise(step, e) ==
    /\ pc' = "handler"
    /\ exc' = Some(e)
    /\ faults' = faults \cup {step}
    /\ UNCHANGED outcome

\* run_optimization ends: it returns, or the exception leaves it.
Finish(how, newFaults) ==
    /\ pc' = "done"
    /\ outcome' = how
    /\ faults' = faults \cup newFaults
    /\ UNCHANGED exc

\* manager.broadcast(task_id, message): the message is sent to the task's
\* subscribers; the clean-up of dead subscribers that follows may raise.
Broadcast(message) == events' = Append(events, message)

\* ------------------------------------------------------------ submission
\* optimize_code: insert the task as 'pending' and schedule the run.
OptimizeCode ==
    /\ pc = "submit"
    /\ \E ok \in BOOLEAN :
         IF ok
         THEN /\ task_status' = "pending"
              /\ Goto("start")
         ELSE /\ UNCHANGED task_status
              /\ Finish("rejected", {"submit"})
    /\ UNCHANGED <<cfgVars, best_result_id, agent_rows, events, forkVars,
                   cleanVars, agentVars, locVars, restVars>>

\* ----------------------------------------------------------- coordinator
\* UPDATE optimization_tasks SET status = 'running'.
SetRunning ==
    /\ pc = "start"
    /\ \E ok \in BOOLEAN :
         IF ok
         THEN /\ task_status' = "running"
              /\ Goto("bc_started")
         ELSE /\ UNCHANGED task_status
              /\ Raise("set_running", "db_error")
    /\ UNCHANGED <<cfgVars, best_result_id, agent_rows, events, forkVars,
                   cleanVars, agentVars, locVars, restVars>>

\* broadcast task_started, then build the ForkManager and ask it for forks.
BroadcastTaskStarted ==
    /\ pc = "bc_started"
    /\ Broadcast(TaskStarted)
    /\ \E ok \in BOOLEAN :
         IF ok THEN Goto("forking")
         ELSE Raise("bc_started", "broadcast_error")
    /\ UNCHANGED <<cfgVars, dbVars, forkVars, cleanVars, agentVars, locVars,
                   restVars>>

\* `if not fork_ids: raise Exception("Failed to create any forks")`.
CheckForks(ids) ==
    IF ids = <<>>
    THEN /\ pc' = "handler"
         /\ exc' = Some("Failed to create any forks")
         /\ UNCHANGED <<outcome, faults>>
    ELSE Goto("bc_forks")

\* create_parallel_forks on the free tier: every create_fork succeeds at
\* once and enters its name in the bookkeeping.
CreateVirtualForks ==
    /\ pc = "forking"
    /\ use_virtual_forks
    /\ fork_state' = [i \in Indices |-> "ok"]
    /\ forks' = forks \cup {ForkName(i) : i \in Indices}
    /\ fork_ids' = SuccessfulForks(0, num_agents, fork_state')
    /\ CheckForks(fork_ids')
    /\ UNCHANGED <<cfgVars, dbVars, events, cleanVars, agentVars, locVars,
                   restVars>>

\* create_fork on the paid tier: the external command succeeds, and the name
\* is entered in the bookkeeping, or it fails and the call raises.
CreateFork(i) ==
    /\ pc = "forking"
    /\ ~use_virtual_forks
    /\ fork_state[i] = "todo"
    /\ \E ok \in BOOLEAN :
         IF ok
         THEN /\ fork_state' = [fork_state EXCEPT ![i] = "ok"]
              /\ forks' = forks \cup {ForkName(i)}
         ELSE /\ fork_state' = [fork_state EXCEPT ![i] = "failed"]
              /\ UNCHANGED forks
    /\ UNCHANGED <<cfgVars, pc, outcome, exc, faults, dbVars, events,
                   fork_ids, cleanVars, agentVars, locVars, restVars>>

\* create_parallel_forks on the paid tier: gather returned, the exceptions
\* are filtered out.
CreateParallelForksReturn ==
    /\ pc = "forking"
    /\ ~use_virtual_forks
    /\ \A i \in Indices : fork_state[i] # "todo"
    /\ fork_ids' = SuccessfulForks(0, num_agents, fork_state)
    /\ CheckForks(fork_ids')
    /\ UNCHANGED <<cfgVars, dbVars, events, fork_state, forks, cleanVars,
                   agentVars, locVars, restVars>>

\* broadcast forks_created, build one agent per obtained fork and start them
\* all with asyncio.gather.
BroadcastForksCreated ==
    /\ pc = "bc_forks"
    /\ Broadcast(ForksCreated)
    /\ \E ok \in BOOLEAN :
         IF ok
         THEN /\ agents' = NewAgents(fork_ids)
              /\ agent_state' = [a \in 0 .. (Len(fork_ids) - 1) |-> AgentStart]
              /\ agent_rows' = [a \in 0 .. (Len(fork_ids) - 1) |-> <<>>]
              /\ Goto("gather")
         ELSE /\ UNCHANGED <<agents, agent_state, agent_rows>>
              /\ Raise("bc_forks", "broadcast_error")
    /\ UNCHANGED <<cfgVars, task_status, best_result_id, forkVars, cleanVars,
                   locVars, restVars>>

\* ----------------------------------------------------------------- agents
AgentIds == DOMAIN agent_state

StrategyOf(a) == agents[a + 1].strategy
ForkOf(a) == agents[a + 1].fork_id

\* What optimize returns on success.
CompletedResult(a, improvement, explanation) ==
    [agent_id |-> a, strategy |-> StrategyOf(a),
     improvement_percent |-> improvement, explanation |-> explanation,
     status |-> "completed"]

\* What optimize returns from its except clause.
FailedResult(a, e) ==
    [agent_id |-> a, strategy |-> StrategyOf(a), error |-> e,
     status |-> "failed"]

\* The rows the two INSERT statements write.
CompletedRow(a, improvement) ==
    [fork_id |-> ForkOf(a), agent_id |-> a, strategy |-> StrategyOf(a),
     improvement_percent |-> improvement, status |-> "completed"]
FailedRow(a, e) ==
    [fork_id |-> ForkOf(a), agent_id |-> a, strategy |-> StrategyOf(a),
     error_message |-> e, status |-> "failed"]

\* optimize has returned r: its locals are gone.
Returned(r) == [pc |-> "returned", context |-> "", improvement |-> None,
                explanation |-> "", exc |-> None, ret |-> Some(r)]

\* An exception leaves optimize.
Escaped(e) == [pc |-> "raised", context |-> "", improvement |-> None,
               explanation |-> "", exc |-> Some(e), ret |-> None]

AgentFrame == <<cfgVars, pc, outcome, exc, faults, task_status,
                best_result_id, events, forkVars, cleanVars, agents, locVars,
                restVars>>

\* Step 1 and 2: hybrid_search returns patterns or, degraded, nothing; it
\* never raises.  The context is built from what it returned.
AgentSearch(a) ==
    /\ pc = "gather"
    /\ agent_state[a].pc = "search"
    /\ \E context \in {"", "patterns"} :
         agent_state' = [agent_state EXCEPT
                            ![a].pc = "generate", ![a].context = context]
    /\ UNCHANGED <<AgentFrame, agent_rows>>

\* Steps 3 to 5: gemini_service.optimize_code returns a record, or, when the
\* backend call or the JSON parse fails, the record it wraps the error in
\* (improvement "0%"); _parse_improvement turns the metric into a number.
AgentGenerate(a) ==
    /\ pc = "gather"
    /\ agent_state[a].pc = "generate"
    /\ \E gen \in {"ok", "api_error"} :
       \E improvement \in ImprovementValues :
         /\ gen = "api_error" => improvement = 0
         /\ agent_state' = [agent_state EXCEPT
                               ![a].pc = "store", ![a].context = "",
                               ![a].improvement = Some(improvement),
                               ![a].explanation = gen]
    /\ UNCHANGED <<AgentFrame, agent_rows>>

\* The completed row is inserted and optimize returns; or the insert raises
\* before anything is written and the except clause is entered.
StoreRaisesAfterInsert(a, ok) ==
    IF ok
    THEN /\ agent_rows' = [agent_rows EXCEPT ![a] =
                Append(@, CompletedRow(a, agent_state[a].improvement[1]))]
         /\ agent_state' = [agent_state EXCEPT ![a] =
                Returned(CompletedResult(a, agent_state[a].improvement[1],
                                         agent_state[a].explanation))]
    ELSE /\ agent_rows' = [agent_rows EXCEPT ![a] =
                Append(@, CompletedRow(a, agent_state[a].improvement[1]))]
         /\ agent_state' = [agent_state EXCEPT
                ![a].pc = "store_failed", ![a].improvement = None,
                ![a].explanation = "", ![a].exc = Some("db_error")]

StoreCompleted(a, ok) ==
    IF ok
    THEN /\ agent_rows' = [agent_rows EXCEPT ![a] =
                Append(@, CompletedRow(a, agent_state[a].improvement[1]))]
         /\ agent_state' = [agent_state EXCEPT ![a] =
                Returned(CompletedResult(a, agent_state[a].improvement[1],
                                         agent_state[a].explanation))]
    ELSE /\ UNCHANGED agent_rows
         /\ agent_state' = [agent_state EXCEPT
                ![a].pc = "store_failed", ![a].improvement = None,
                ![a].explanation = "", ![a].exc = Some("db_error")]

\* Step 6: INSERT INTO agent_results ... 'completed'.
AgentStore(a) ==
    /\ pc = "gather"
    /\ agent_state[a].pc = "store"
    /\ \E ok \in BOOLEAN : StoreCompleted(a, ok)
    /\ UNCHANGED AgentFrame

\* The except clause of optimize without the inner try: a failing insert of
\* the failure record leaves optimize as an exception.
RecordFailureUnguarded(a, ok) ==
    IF ok
    THEN /\ agent_rows' = [agent_rows EXCEPT ![a] =
                Append(@, FailedRow(a, agent_state[a].exc[1]))]
         /\ agent_state' = [agent_state EXCEPT ![a] =
                Returned(FailedResult(a, agent_state[a].exc[1]))]
    ELSE /\ UNCHANGED agent_rows
         /\ agent_state' = [agent_state EXCEPT ![a] = Escaped("db_error")]

\* The except clause of optimize: the failure record is inserted, or its
\* insert raises and is swallowed; the failed descriptor is returned.
RecordFailure(a, ok) ==
    /\ agent_rows' = [agent_rows EXCEPT ![a] =
            IF ok THEN Append(@, FailedRow(a, agent_state[a].exc[1])) ELSE @]
    /\ agent_state' = [agent_state EXCEPT ![a] =
            Returned(FailedResult(a, agent_state[a].exc[1]))]

\* INSERT INTO agent_results ... 'failed', inside `try ... except db_error`.
AgentStoreFailed(a) ==
    /\ pc = "gather"
    /\ agent_state[a].pc = "store_failed"
    /\ \E ok \in BOOLEAN : RecordFailure(a, ok)
    /\ UNCHANGED AgentFrame

\* gather with its list in the reverse of submission order: the slot of agent
\* a holds what the agent at the mirrored index returned.
GatherResultReversed(a) ==
    LET b == Len(agents) - 1 - a IN
    IF agent_state[b].pc = "raised"
    THEN [status |-> "exception", error |-> agent_state[b].exc[1]]
    ELSE agent_state[b].ret[1]

\* What gather(return_exceptions=True) puts in its list for agent a.
GatherResult(a) ==
    IF agent_state[a].pc = "raised"
    THEN [status |-> "exception", error |-> agent_state[a].exc[1]]
    ELSE agent_state[a].ret[1]

\* gather that gives up on the first failure: it returns as soon as one agent
\* has failed, the agents still running cancelled in its list.
GatherDoneFailFast ==
    /\ pc = "gather"
    /\ \/ \A a \in AgentIds : agent_state[a].pc \in {"returned", "raised"}
       \/ \E a \in AgentIds :
             \/ agent_state[a].pc = "raised"
             \/ /\ agent_state[a].pc = "returned"
                /\ agent_state[a].ret[1].status = "failed"
    /\ results' = [k \in 1 .. Len(agents) |->
                     IF agent_state[k - 1].pc \in {"returned", "raised"}
                     THEN GatherResult(k - 1)
                     ELSE [status |-> "exception", error |-> "cancelled"]]
    /\ Goto("results")
    /\ UNCHANGED <<cfgVars, dbVars, events, forkVars, cleanVars, agentVars,
                   ri, successful_results, best_result, looked_up, restVars>>

\* asyncio.gather returns once every agent has ended, results in agent order.
GatherDone ==
    /\ pc = "gather"
    /\ \A a \in AgentIds : agent_state[a].pc \in {"returned", "raised"}
    /\ results' = [k \in 1 .. Len(agents) |-> GatherResult(k - 1)]
    /\ Goto("results")
    /\ UNCHANGED <<cfgVars, dbVars, events, forkVars, cleanVars, agentVars,
                   ri, successful_results, best_result, looked_up, restVars>>

\* ------------------------------------------- results, winner, final state
\* One turn of `for result in results`: an exception is logged and skipped,
\* a descriptor is appended to successful_results and broadcast.
ProcessResult ==
    /\ pc = "results"
    /\ ri < Len(results)
    /\ ri' = ri + 1
    /\ IF results[ri + 1].status = "exception"
       THEN /\ Goto("results")
            /\ UNCHANGED <<successful_results, events>>
       ELSE /\ successful_results' = Append(successful_results, results[ri + 1])
            /\ Broadcast(AgentCompleted(results[ri + 1]))
            /\ \E ok \in BOOLEAN :
                 IF ok THEN Goto("results")
                 ELSE Raise("bc_agent", "broadcast_error")
    /\ UNCHANGED <<cfgVars, dbVars, forkVars, cleanVars, agentVars, results,
                   best_result, looked_up, restVars>>

\* `if best_result:` without the else branch: a run with no winner fails.
AfterSelectionNoWinnerFails(best) ==
    IF best # None THEN Goto("lookup")
    ELSE /\ pc' = "handler"
         /\ exc' = Some("No successful results")
         /\ UNCHANGED <<outcome, faults>>

\* `if best_result:` look the winner's row up, else persist without one.
AfterSelection(best) ==
    IF best # None THEN Goto("lookup") ELSE Goto("persist")

\* The loop over successful_results that finds the best result.
SelectBest ==
    /\ pc = "results"
    /\ ri = Len(results)
    /\ best_result' = BestResult(successful_results)
    /\ AfterSelection(best_result')
    /\ UNCHANGED <<cfgVars, dbVars, events, forkVars, cleanVars, agentVars,
                   results, ri, successful_results, looked_up, restVars>>

\* SELECT id FROM agent_results WHERE task_id = $1 AND agent_id = $2: the id
\* of the agent's row (the agent id stands for it), NULL when it has none.
RowId(a) == IF agent_rows[a] # <<>> THEN Some(a) ELSE None

FetchBestId ==
    /\ pc = "lookup"
    /\ \E ok \in BOOLEAN :
         IF ok
         THEN /\ looked_up' = RowId(best_result[1].agent_id)
              /\ Goto("persist")
         ELSE /\ UNCHANGED looked_up
              /\ Raise("lookup", "db_error")
    /\ UNCHANGED <<cfgVars, dbVars, events, forkVars, cleanVars, agentVars,
                   results, ri, successful_results, best_result, restVars>>

\* UPDATE optimization_tasks SET status = 'completed' [, best_result_id = $2].
PersistCompleted ==
    /\ pc = "persist"
    /\ \E ok \in BOOLEAN :
         IF ok
         THEN /\ task_status' = "completed"
              /\ best_result_id' =
                    IF best_result # None THEN looked_up ELSE best_result_id
              /\ Goto("bc_complete")
         ELSE /\ UNCHANGED <<task_status, best_result_id>>
              /\ Raise("persist", "db_error")
    /\ UNCHANGED <<cfgVars, agent_rows, events, forkVars, cleanVars,
                   agentVars, locVars, restVars>>

\* broadcast complete, then call cleanup_forks(fork_ids): on the paid tier
\* one delete_fork per id is started.
BroadcastComplete ==
    /\ pc = "bc_complete"
    /\ Broadcast(Complete(successful_results, best_result))
    /\ \E ok \in BOOLEAN :
         IF ok
         THEN /\ cleanup_arg' = Some(fork_ids)
              /\ del_state' = [i \in Indices |->
                    IF ~use_virtual_forks /\ ForkName(i) \in Range(fork_ids)
                    THEN "todo" ELSE del_state[i]]
              /\ Goto("cleanup")
         ELSE /\ UNCHANGED <<cleanup_arg, del_state>>
              /\ Raise("bc_complete", "broadcast_error")
    /\ UNCHANGED <<cfgVars, dbVars, forkVars, deleted, agentVars, locVars,
                   restVars>>

\* ----------------------------------------------------------------- cleanup
\* `if fork_id in self.forks: del self.forks[fork_id]`, with the del left out.
KeepTracked(tracked, name) == tracked

\* `if fork_id in self.forks: del self.forks[fork_id]`.
RemoveTracked(tracked, name) == tracked \ {name}

RECURSIVE RemoveAll(_, _, _)
RemoveAll(tracked, ids, k) ==
    IF k > Len(ids) THEN tracked
    ELSE RemoveAll(RemoveTracked(tracked, ids[k]), ids, k + 1)

\* How often a name occurs in a list.
Count(ids, name) == Cardinality({k \in 1 .. Len(ids) : ids[k] = name})

\* cleanup_forks on the free tier: delete_fork for each id in turn, which
\* only drops the name from the bookkeeping; nothing here can fail.
CleanupVirtual ==
    /\ pc = "cleanup"
    /\ use_virtual_forks
    /\ forks' = RemoveAll(forks, cleanup_arg[1], 1)
    /\ deleted' = [i \in Indices |->
                      deleted[i] + Count(cleanup_arg[1], ForkName(i))]
    /\ Finish("returned", {})
    /\ UNCHANGED <<cfgVars, dbVars, events, fork_state, fork_ids,
                   cleanup_arg, del_state, agentVars, locVars, restVars>>

\* delete_fork on the paid tier: the delete command runs (its exit code is
\* not looked at) and the name is dropped from the bookkeeping, or starting
\* the command raises, which is logged and swallowed.
DeleteFork(i) ==
    /\ pc = "cleanup"
    /\ ~use_virtual_forks
    /\ del_state[i] = "todo"
    /\ del_state' = [del_state EXCEPT ![i] = "done"]
    /\ \E ran \in BOOLEAN :
         /\ forks' = IF ran THEN RemoveTracked(forks, ForkName(i)) ELSE forks
         /\ deleted' = [deleted EXCEPT ![i] = IF ran THEN @ + 1 ELSE @]
         /\ faults' = IF ran THEN faults ELSE faults \cup {"cleanup"}
    /\ UNCHANGED <<cfgVars, pc, outcome, exc, dbVars, events, fork_state,
                   fork_ids, cleanup_arg, agentVars, locVars, restVars>>

\* cleanup_forks on the paid tier giving up at the first failed release: it
\* returns as soon as one delete_fork has failed, the rest not attempted.
CleanupReturnAtFirstFailure ==
    /\ pc = "cleanup"
    /\ ~use_virtual_forks
    /\ \/ \A i \in Indices : del_state[i] # "todo"
       \/ "cleanup" \in faults
    /\ Finish("returned", {})
    /\ UNCHANGED <<cfgVars, dbVars, events, forkVars, cleanVars, agentVars,
                   locVars, restVars>>

\* cleanup_forks on the paid tier: gather(return_exceptions=True) returned.
CleanupReturn ==
    /\ pc = "cleanup"
    /\ ~use_virtual_forks
    /\ \A i \in Indices : del_state[i] # "todo"
    /\ Finish("returned", {})
    /\ UNCHANGED <<cfgVars, dbVars, events, forkVars, cleanVars, agentVars,
                   locVars, restVars>>

\* ----------------------------------------------------- the except clause
\* UPDATE optimization_tasks SET status = 'failed'; nothing guards the call.
PersistFailed ==
    /\ pc = "handler"
    /\ \E ok \in BOOLEAN :
         IF ok
         THEN /\ task_status' = "failed"
              /\ Goto("bc_error")
         ELSE /\ UNCHANGED task_status
              /\ Finish("raised", {"handler_persist"})
    /\ UNCHANGED <<cfgVars, best_result_id, agent_rows, events, forkVars,
                   cleanVars, agentVars, locVars, restVars>>

\* broadcast error; nothing guards the call.
BroadcastError ==
    /\ pc = "bc_error"
    /\ Broadcast(Error(exc[1]))
    /\ \E ok \in BOOLEAN :
         IF ok THEN Finish("returned", {})
         ELSE Finish("raised", {"handler_broadcast"})
    /\ UNCHANGED <<cfgVars, dbVars, forkVars, cleanVars, agentVars, locVars,
                   restVars>>

\* ------------------------------------------------------------ specification
Next ==
    \/ OptimizeCode
    \/ SetRunning
    \/ BroadcastTaskStarted
    \/ CreateVirtualForks
    \/ \E i \in Indices : CreateFork(i)
    \/ CreateParallelForksReturn
    \/ BroadcastForksCreated
    \/ \E a \in AgentIds : AgentSearch(a)
    \/ \E a \in AgentIds : AgentGenerate(a)
    \/ \E a \in AgentIds : AgentStore(a)
    \/ \E a \in AgentIds : AgentStoreFailed(a)
    \/ GatherDone
    \/ ProcessResult
    \/ SelectBest
    \/ FetchBestId
    \/ PersistCompleted
    \/ BroadcastComplete
    \/ CleanupVirtual
    \/ \E i \in Indices : DeleteFork(i)
    \/ CleanupReturn
    \/ PersistFailed
    \/ BroadcastError

Spec == Init /\ [][Next]_vars

\* --------------------------------------- the winner selection on its own
\* The result lists the selection is tried on: every list of at most
\* MaxResults descriptors, the k-th one returned by agent k-1, each failed
\* or completed with an improvement of SelValues.
SelOutcomes ==
    {[failed |-> FALSE, v |-> x] : x \in SelValues} \cup {[failed |-> TRUE, v |-> 0]}

SelDescriptor(k, o) ==
    IF o.failed
    THEN [agent_id |-> k - 1, strategy |-> (k - 1) % NumStrategies,
          error |-> "db_error", status |-> "failed"]
    ELSE [agent_id |-> k - 1, strategy |-> (k - 1) % NumStrategies,
          improvement_percent |-> o.v, explanation |-> "ok",
          status |-> "completed"]

SelInputs ==
    UNION {{[k \in 1 .. n |-> SelDescriptor(k, f[k])] : f \in [1 .. n -> SelOutcomes]}
           : n \in 0 .. MaxResults}

SelInit ==
    /\ RunInit("idle")
    /\ use_virtual_forks
    /\ num_agents = 1
    /\ sel_in \in SelInputs
    /\ sel_out = None
    /\ FmIdle /\ TasksIdle /\ CmIdle /\ HsIdle /\ ParseIdle /\ CompIdle

\* The winner search applied to sel_in; sel_out holds what it selected.
SelectWinner ==
    /\ pc = "idle"
    /\ sel_out = None
    /\ sel_out' = Some(BestResult(sel_in))
    /\ UNCHANGED <<runVars, sel_in, auxVars>>

SelNext == SelectWinner

SelSpec == SelInit /\ [][SelNext]_vars

\* ------------------------------------------- one ForkManager on its own
\* A ForkManager whose create_fork and delete_fork are called one after the
\* other, in any order and with any handle: the names create_fork builds for
\* the indices below num_agents, and one name no create_fork ever built.
FmHandles == {ForkName(i) : i \in Indices} \cup {<<"unknown", 0>>}

\* The record of one call: whether the handle was tracked when the call was
\* made, the bookkeeping at that moment, whether the call ran an external
\* command and whether it raised.
FmCall(op, handle, issued, raised) ==
    Some([op |-> op, handle |-> handle, tracked |-> handle \in fm_forks,
          before |-> fm_forks, issued |-> issued, raised |-> raised])

FmInit ==
    /\ RunInit("idle")
    /\ SelIdle /\ FmIdle /\ TasksIdle /\ CmIdle /\ HsIdle /\ ParseIdle /\ CompIdle

\* create_fork(str(i)).  Free tier: the name is entered in the bookkeeping.
\* Paid tier: `tiger service fork` runs; on exit code 0 the name is entered,
\* otherwise the call raises.
FmCreateFork(i) ==
    /\ IF use_virtual_forks
       THEN /\ fm_forks' = fm_forks \cup {ForkName(i)}
            /\ fm_last' = FmCall("create_fork", ForkName(i), FALSE, FALSE)
            /\ UNCHANGED fm_cmds
       ELSE /\ Len(fm_cmds) < MaxCmds
            /\ fm_cmds' = Append(fm_cmds, <<"fork", ForkName(i)>>)
            /\ \E ok \in BOOLEAN :
                 /\ fm_forks' = IF ok THEN fm_forks \cup {ForkName(i)}
                                 ELSE fm_forks
                 /\ fm_last' = FmCall("create_fork", ForkName(i), TRUE, ~ok)
    /\ UNCHANGED <<runVars, selVars, tasks, cmVars, hs, parseVars, compVars>>

\* delete_fork(fork_id).  Free tier: the name is dropped from the bookkeeping
\* if it is there.  Paid tier: `tiger service delete fork_id --force` runs
\* for whatever fork_id is given, then the name is dropped if it is there;
\* when the command cannot be started the exception is logged and swallowed.
FmDeleteFork(fork_id) ==
    /\ IF use_virtual_forks
       THEN /\ fm_forks' = RemoveTracked(fm_forks, fork_id)
            /\ fm_last' = FmCall("delete_fork", fork_id, FALSE, FALSE)
            /\ UNCHANGED fm_cmds
       ELSE /\ Len(fm_cmds) < MaxCmds
            /\ \E ran \in BOOLEAN :
                 /\ fm_cmds' = IF ran
                                THEN Append(fm_cmds, <<"delete", fork_id>>)
                                ELSE fm_cmds
                 /\ fm_forks' = IF ran THEN RemoveTracked(fm_forks, fork_id)
                                 ELSE fm_forks
                 /\ fm_last' = FmCall("delete_fork", fork_id, ran, FALSE)
    /\ UNCHANGED <<runVars, selVars, tasks, cmVars, hs, parseVars, compVars>>

FmNext ==
    \/ \E i \in Indices : FmCreateFork(i)
    \/ \E fork_id \in FmHandles : FmDeleteFork(fork_id)

FmSpec == FmInit /\ [][FmNext]_vars

\* ------------------------------------------------------- concurrent runs
\* Several run_optimization calls of one process, each with a ForkManager of
\* its own (optimization.py:175): what each obtains, which of its agents are
\* still inside optimize, and what its ForkManager tracks.
TaskIds == 1 .. MaxTasks

\* The outcome of the create_fork calls of one run: ok for the indices of S.
ForkOutcomes(n, S) == [i \in 0 .. (n - 1) |-> IF i \in S THEN "ok" ELSE "failed"]

TasksInit ==
    /\ RunInit("idle")
    /\ num_agents = 1
    /\ SelIdle /\ FmIdle /\ CmIdle /\ HsIdle /\ ParseIdle /\ CompIdle
    /\ tasks \in [TaskIds -> {[pc |-> "forking", n |-> n, fork_ids |-> <<>>,
                               forks |-> {}, active |-> {}]
                              : n \in 1 .. MaxTaskAgents}]

\* create_parallel_forks(n) of task t returns: every name on the free tier,
\* the names of the create_fork calls that succeeded on the paid tier.  With
\* no name the run raises; otherwise agent-k is built on the k-th name and
\* all agents are started.
TaskProvision(t) ==
    /\ tasks[t].pc = "forking"
    /\ \E S \in SUBSET (0 .. (tasks[t].n - 1)) :
         /\ use_virtual_forks => S = 0 .. (tasks[t].n - 1)
         /\ LET ids == SuccessfulForks(0, tasks[t].n, ForkOutcomes(tasks[t].n, S))
            IN tasks' = [tasks EXCEPT ![t] =
                  [pc |-> IF ids = <<>> THEN "failed" ELSE "running",
                   n |-> tasks[t].n, fork_ids |-> ids, forks |-> Range(ids),
                   active |-> 0 .. (Len(ids) - 1)]]
    /\ UNCHANGED <<runVars, selVars, fmVars, cmVars, hs, parseVars, compVars>>

\* optimize of agent a of task t returns.
TaskAgentEnd(t, a) ==
    /\ tasks[t].pc = "running"
    /\ a \in tasks[t].active
    /\ tasks' = [tasks EXCEPT ![t].active = @ \ {a}]
    /\ UNCHANGED <<runVars, selVars, fmVars, cmVars, hs, parseVars, compVars>>

\* gather has returned.  The run goes on to cleanup_forks(fork_ids), which
\* empties the bookkeeping of its ForkManager, or a step before it raises
\* and the run ends in its except clause.
TaskEnd(t) ==
    /\ tasks[t].pc = "running"
    /\ tasks[t].active = {}
    /\ \E reached \in BOOLEAN :
         tasks' = [tasks EXCEPT
                      ![t].pc = IF reached THEN "done" ELSE "failed",
                      ![t].forks = IF reached
                                   THEN RemoveAll(@, tasks[t].fork_ids, 1)
                                   ELSE @]
    /\ UNCHANGED <<runVars, selVars, fmVars, cmVars, hs, parseVars, compVars>>

TasksNext ==
    \/ \E t \in TaskIds : TaskProvision(t)
    \/ \E t \in TaskIds : \E a \in tasks[t].active : TaskAgentEnd(t, a)
    \/ \E t \in TaskIds : TaskEnd(t)

TasksSpec == TasksInit /\ [][TasksNext]_vars

\* ------------------------------------------------- the ConnectionManager
\* The hub for one task id.  active_connections is the dict restricted to
\* that key: <<>> when the key is absent, <<list>> when it maps to list.
\* Nothing is locked: whatever runs between two awaits runs at once.
TaskKey == 1
Sockets == 1 .. MaxSockets

\* list.remove(x) left out.
RemoveNothing(list, ws) == list

\* list.remove(x): the list without its first x.
Remove(list, ws) ==
    LET first == CHOOSE k \in 1 .. Len(list) :
                    list[k] = ws /\ \A j \in 1 .. (k - 1) : list[j] # ws
    IN SubSeq(list, 1, first - 1) \o SubSeq(list, first + 1, Len(list))

\* disconnect without `if not self.active_connections[task_id]: del ...`: the
\* key stays, mapped to the list that became empty.
DisconnectKeepsKey(conns, ws) ==
    IF TaskKey \notin DOMAIN conns THEN [conns |-> conns, raised |-> FALSE]
    ELSE IF ws \notin Range(conns[TaskKey])
         THEN [conns |-> conns, raised |-> TRUE]
         ELSE [conns |-> <<Remove(conns[TaskKey], ws)>>, raised |-> FALSE]

\* ConnectionManager.disconnect(websocket, task_id) on the dict conns: the
\* dict it leaves, and whether list.remove raised ValueError.
Disconnect(conns, ws) ==
    IF TaskKey \notin DOMAIN conns THEN [conns |-> conns, raised |-> FALSE]
    ELSE IF ws \notin Range(conns[TaskKey])
         THEN [conns |-> conns, raised |-> TRUE]
         ELSE LET list == Remove(conns[TaskKey], ws) IN
              [conns |-> IF list = <<>> THEN <<>> ELSE <<list>>,
               raised |-> FALSE]

\* `for ws in disconnected: self.disconnect(ws, task_id)`, from the k-th on:
\* it stops at the first disconnect that raises.
RECURSIVE CleanUp(_, _, _)
CleanUp(conns, disconnected, k) ==
    IF k > Len(disconnected) THEN [conns |-> conns, raised |-> FALSE]
    ELSE LET d == Disconnect(conns, disconnected[k]) IN
         IF d.raised THEN d ELSE CleanUp(d.conns, disconnected, k + 1)

\* The list the for loop of broadcast iterates: the list object it took
\* from the dict, which is empty for good once its key was deleted.
Iterated(b, conns) ==
    IF b.detached \/ TaskKey \notin DOMAIN conns THEN <<>> ELSE conns[TaskKey]

\* The loop of broadcast goes on after a send, with the dict conns: it
\* takes the next websocket of the list and awaits its send_json; or the
\* list is exhausted, the clean-up runs and broadcast returns or raises.
Advance(b, conns) ==
    LET list == Iterated(b, conns) IN
    IF b.idx < Len(list)
    THEN /\ bc' = [b EXCEPT !.pc = "sending", !.cur = list[b.idx + 1],
                            !.idx = b.idx + 1]
         /\ active_connections' = conns
    ELSE LET c == CleanUp(conns, b.disconnected, 1) IN
         /\ bc' = [b EXCEPT !.pc = IF c.raised THEN "raised" ELSE "done",
                            !.cur = 0, !.after = c.conns]
         /\ active_connections' = c.conns

CmInit ==
    /\ RunInit("idle")
    /\ num_agents = 1
    /\ use_virtual_forks
    /\ SelIdle /\ FmIdle /\ TasksIdle /\ HsIdle /\ ParseIdle /\ CompIdle
    /\ active_connections = <<>>
    /\ endpoints = [ws \in Sockets |-> "new"]
    /\ bc = BcIdle

\* A broadcast is suspended in a send.
Sending == bc.pc = "sending"

\* websocket_endpoint calls manager.connect: accept, then the websocket is
\* appended to the list of the task, which is created if the key is absent.
\* When accept raises, the endpoint ends without having registered.
CmConnect(ws) ==
    /\ endpoints[ws] = "new"
    /\ \E ok \in BOOLEAN :
         IF ok
         THEN /\ endpoints' = [endpoints EXCEPT ![ws] = "open"]
              /\ active_connections' =
                    IF TaskKey \in DOMAIN active_connections
                    THEN <<Append(active_connections[TaskKey], ws)>>
                    ELSE << <<ws>> >>
              /\ bc' = IF Sending THEN [bc EXCEPT !.joined = @ \cup {ws}] ELSE bc
         ELSE /\ endpoints' = [endpoints EXCEPT ![ws] = "closed"]
              /\ UNCHANGED <<active_connections, bc>>
    /\ UNCHANGED <<runVars, selVars, fmVars, tasks, hs, parseVars, compVars>>

\* receive_text raises in websocket_endpoint, whose except clause calls
\* manager.disconnect; a ValueError of list.remove leaves the endpoint.
CmDisconnect(ws) ==
    /\ endpoints[ws] = "open"
    /\ LET d == Disconnect(active_connections, ws) IN
       /\ active_connections' = d.conns
       /\ endpoints' = [endpoints EXCEPT
                           ![ws] = IF d.raised THEN "raised" ELSE "closed"]
       /\ bc' = IF Sending
                THEN [bc EXCEPT !.left = @ \cup {ws},
                                !.detached = @ \/ d.conns = <<>>]
                ELSE bc
    /\ UNCHANGED <<runVars, selVars, fmVars, tasks, hs, parseVars, compVars>>

\* manager.broadcast(task_id, message) is called: with the key absent it
\* returns at once, otherwise it enters its loop.
BcStart ==
    /\ bc.pc = "idle"
    /\ LET b == [pc |-> "done", before |-> active_connections,
                 after |-> active_connections, idx |-> 0, cur |-> 0,
                 detached |-> FALSE, disconnected |-> <<>>, delivered |-> {},
                 left |-> {}, joined |-> {}]
       IN IF TaskKey \notin DOMAIN active_connections
          THEN bc' = b /\ UNCHANGED active_connections
          ELSE Advance(b, active_connections)
    /\ UNCHANGED <<runVars, selVars, fmVars, tasks, endpoints, hs, parseVars, compVars>>

\* The awaited send_json returns, or raises and the websocket is put on
\* the disconnected list; then the loop goes on.
BcSendDone ==
    /\ Sending
    /\ \E ok \in BOOLEAN :
         Advance(IF ok
                 THEN [bc EXCEPT !.delivered = @ \cup {bc.cur}]
                 ELSE [bc EXCEPT !.disconnected = Append(@, bc.cur)],
                 active_connections)
    /\ UNCHANGED <<runVars, selVars, fmVars, tasks, endpoints, hs, parseVars, compVars>>

\* The caller of broadcast goes on (or handles the exception).
BcReturn ==
    /\ bc.pc \in {"done", "raised"}
    /\ bc' = BcIdle
    /\ UNCHANGED <<runVars, selVars, fmVars, tasks, active_connections,
                   endpoints, hs, parseVars, compVars>>

CmNext ==
    \/ \E ws \in Sockets : CmConnect(ws)
    \/ \E ws \in Sockets : CmDisconnect(ws)
    \/ BcStart
    \/ BcSendDone
    \/ BcReturn

CmSpec == CmInit /\ [][CmNext]_vars

\* ------------------------------------------------------- hybrid_search
\* One call of hybrid_search(query_text, category, limit).  A row of
\* optimization_patterns is its id; a query result is the list of the ids
\* it returned, the row of rank r at position r.  The scores are kept as
\* exact fractions <<numerator, denominator>>: the floats of the code order
\* them the same way, as two different sums of at most two terms 1/(k+rank)
\* with rank <= 20 differ by far more than a rounding error.
PatternIds == 1 .. MaxPatterns

\* The lists of at most n pairwise different elements of S.
InjectiveSeqs(S, n) ==
    UNION {{q \in [1 .. m -> S] : \A i, j \in 1 .. m : i # j => q[i] # q[j]}
           : m \in 0 .. n}

RatAdd(a, b) == <<a[1] * b[2] + b[1] * a[2], a[2] * b[2]>>
RatEq(a, b) == a[1] * b[2] = b[1] * a[2]
RatLess(a, b) == a[1] * b[2] < b[1] * a[2]

\* 1 / (k + rank) with the ranks counted from 0.
RrfTermZeroBased(rank) == <<1, RRFK + rank - 1>>

\* 1 / (k + row['rank']).
RrfTerm(rank) == <<1, RRFK + rank>>

\* row['rank'] of the row with this id.
RankIn(rows, id) == CHOOSE r \in 1 .. Len(rows) : rows[r] = id

\* The keys of `combined` in insertion order: the lexical rows, then the
\* vector rows that are not among them.
Combined(lex, vec) ==
    lex \o SelectSeq(vec, LAMBDA id : id \notin Range(lex))

\* The fusion with `=` for `+=`: the contribution of the vector list
\* overwrites that of the lexical list.
RrfScoreOverwrite(lex, vec, id) ==
    IF id \in Range(vec) THEN RrfTerm(RankIn(vec, id))
    ELSE RrfTerm(RankIn(lex, id))

\* combined[id]['rrf_score'].
RrfScore(lex, vec, id) ==
    IF id \in Range(lex)
    THEN IF id \in Range(vec)
         THEN RatAdd(RrfTerm(RankIn(lex, id)), RrfTerm(RankIn(vec, id)))
         ELSE RrfTerm(RankIn(lex, id))
    ELSE RrfTerm(RankIn(vec, id))

\* sorted(combined.values(), key=rrf_score, reverse=True): by descending
\* score, entries of equal score in insertion order (the sort is stable).
SortedResults(lex, vec) ==
    LET keys == Combined(lex, vec)
        Ahead(p) == {q \in 1 .. Len(keys) :
                       \/ RatLess(RrfScore(lex, vec, keys[p]),
                                  RrfScore(lex, vec, keys[q]))
                       \/ /\ RatEq(RrfScore(lex, vec, keys[p]),
                                   RrfScore(lex, vec, keys[q]))
                          /\ q < p}
    IN [n \in 1 .. Len(keys) |->
           keys[CHOOSE p \in 1 .. Len(keys) : Cardinality(Ahead(p)) = n - 1]]

\* sorted_results[:limit].
Top(rows, limit) == SubSeq(rows, 1, IF Len(rows) < limit THEN Len(rows) ELSE limit)

HsStart(limit) ==
    [pc |-> "embed", limit |-> limit, lex |-> <<>>, vec |-> <<>>,
     via |-> "", out |-> <<>>, trace |-> {}]

HsInit ==
    /\ RunInit("idle")
    /\ num_agents = 1
    /\ use_virtual_forks
    /\ SelIdle /\ FmIdle /\ TasksIdle /\ CmIdle /\ ParseIdle /\ CompIdle
    /\ hs \in {HsStart(limit) : limit \in 1 .. SearchLimit}

\* Control reaches bm25_search, from the missing embedding or from the
\* except clause of hybrid_search: the locals of the try block are gone.
ToFallback(why) ==
    hs' = [hs EXCEPT !.pc = "fallback", !.lex = <<>>, !.vec = <<>>,
                     !.trace = @ \cup {why}]

\* generate_embedding returns an embedding, or None when the backend call
\* failed or answered without one; it raises nothing.
HsEmbed ==
    /\ hs.pc = "embed"
    /\ \E embedded \in BOOLEAN :
         IF embedded THEN hs' = [hs EXCEPT !.pc = "lex_query"]
         ELSE ToFallback("no_embedding")
    /\ UNCHANGED <<runVars, selVars, fmVars, tasks, cmVars, parseVars, compVars>>

\* db.fetch(bm25_query): the rows of the category that match, or it raises.
HsLexQuery ==
    /\ hs.pc = "lex_query"
    /\ \/ \E rows \in InjectiveSeqs(PatternIds, MaxPatterns) :
            hs' = [hs EXCEPT !.pc = "vec_query", !.lex = rows]
       \/ ToFallback("lex_raised")
    /\ UNCHANGED <<runVars, selVars, fmVars, tasks, cmVars, parseVars, compVars>>

\* db.fetch(vector_query) returns and the two lists are fused, sorted and
\* cut to limit; or the query raises; or the fusion raises on a row.
HsVecQuery ==
    /\ hs.pc = "vec_query"
    /\ \/ \E rows \in InjectiveSeqs(PatternIds, MaxPatterns) :
            hs' = [hs EXCEPT !.pc = "returned", !.vec = rows, !.via = "fused",
                      !.out = Top(SortedResults(hs.lex, rows), hs.limit)]
       \/ ToFallback("vec_raised")
       \/ ToFallback("fusion_raised")
    /\ UNCHANGED <<runVars, selVars, fmVars, tasks, cmVars, parseVars, compVars>>

\* bm25_search without its try: a failing query leaves it as an exception.
Bm25SearchUnguarded(ok, rows) ==
    IF ok THEN [hs EXCEPT !.pc = "returned", !.via = "lexical_only", !.out = rows]
    ELSE [hs EXCEPT !.pc = "raised", !.trace = @ \cup {"fallback_raised"}]

\* bm25_search: the rows its query returned, or [] when the query raised.
Bm25Search(ok, rows) ==
    IF ok THEN [hs EXCEPT !.pc = "returned", !.via = "lexical_only", !.out = rows]
    ELSE [hs EXCEPT !.pc = "returned", !.via = "empty", !.out = <<>>,
                    !.trace = @ \cup {"fallback_raised"}]

\* `return await bm25_search(query_text, category, limit)`.
HsFallback ==
    /\ hs.pc = "fallback"
    /\ \/ \E rows \in InjectiveSeqs(PatternIds, hs.limit) :
            hs' = Bm25Search(TRUE, rows)
       \/ hs' = Bm25Search(FALSE, <<>>)
    /\ UNCHANGED <<runVars, selVars, fmVars, tasks, cmVars, parseVars, compVars>>

HsNext ==
    \/ HsEmbed
    \/ HsLexQuery
    \/ HsVecQuery
    \/ HsFallback

HsSpec == HsInit /\ [][HsNext]_vars

\* --------------------------------------------------- _parse_improvement
\* _parse_improvement(improvement_str) on strings over a small alphabet: two
\* digits, the point, the percent sign, x in both cases, the space and one
\* other letter.  A string is the sequence of its characters; a number is
\* kept as the exact fraction <<numerator, denominator>> of its decimal
\* notation (the floats of the code are the nearest doubles).
Chars == {"2", "5", ".", "%", "x", "X", " ", "a"}

\* The strings of exactly n characters, and of at most n.
StringsOfLen(n) == [1 .. n -> Chars]
Strings(n) == UNION {StringsOfLen(m) : m \in 0 .. n}

Digit(c) == c \in {"0", "1", "2", "3", "4", "5", "6", "7", "8", "9"}
DigitValue(c) ==
    CASE c = "0" -> 0 [] c = "1" -> 1 [] c = "2" -> 2 [] c = "3" -> 3
      [] c = "4" -> 4 [] c = "5" -> 5 [] c = "6" -> 6 [] c = "7" -> 7
      [] c = "8" -> 8 [] c = "9" -> 9

\* str.lower(), on the letters the parser looks for.
LowerChar(c) ==
    CASE c = "X" -> "x" [] c = "O" -> "o" [] c = "N" -> "n"
      [] c = "L" -> "l" [] c = "G" -> "g" [] OTHER -> c
Lower(str) == [k \in 1 .. Len(str) |-> LowerChar(str[k])]

\* `sub in str`.
Contains(str, sub) ==
    \E i \in 1 .. (Len(str) - Len(sub) + 1) :
       SubSeq(str, i, i + Len(sub) - 1) = sub

\* Where \d+ ends when it starts at the digit at p.
RunEnd(str, p) ==
    CHOOSE q \in p .. Len(str) :
       /\ \A j \in p .. q : Digit(str[j])
       /\ q = Len(str) \/ ~Digit(str[q + 1])

\* Where \d+(?:\.\d+)? ends when it starts at the digit at p: the fraction
\* is taken when a point and a digit follow the integer part.
HasFraction(str, p) ==
    LET q == RunEnd(str, p)
    IN q + 2 <= Len(str) /\ str[q + 1] = "." /\ Digit(str[q + 2])
NumberEnd(str, p) ==
    IF HasFraction(str, p) THEN RunEnd(str, RunEnd(str, p) + 2)
    ELSE RunEnd(str, p)

\* int() of the digits at a .. b, and ten to the n.
RECURSIVE NaturalOf(_, _, _)
NaturalOf(str, a, b) ==
    IF b < a THEN 0 ELSE NaturalOf(str, a, b - 1) * 10 + DigitValue(str[b])
RECURSIVE Pow10(_)
Pow10(n) == IF n = 0 THEN 1 ELSE 10 * Pow10(n - 1)

\* float(match.group(1)) for the number that starts at p.
FloatOf(str, p) ==
    LET q == RunEnd(str, p)
        e == NumberEnd(str, p)
    IN IF HasFraction(str, p)
       THEN <<NaturalOf(str, p, q) * Pow10(e - q - 1) + NaturalOf(str, q + 2, e),
              Pow10(e - q - 1)>>
       ELSE <<NaturalOf(str, p, q), 1>>

\* re.search(r'(\d+(?:\.\d+)?)', str): where the leftmost number starts,
\* None when the string has no digit.
FirstNumber(str) ==
    LET starts == {p \in 1 .. Len(str) : Digit(str[p])}
    IN IF starts = {} THEN None
       ELSE Some(CHOOSE p \in starts : \A r \in starts : p <= r)

\* \s*x matches right after position e.
SpacesThenX(str, e) ==
    \E j \in (e + 1) .. Len(str) :
       str[j] = "x" /\ \A i \in (e + 1) .. (j - 1) : str[i] = " "

\* re.search(r'(\d+(?:\.\d+)?)\s*x', str): where the leftmost match
\* starts.  A match that starts at p takes the whole number at p: after
\* fewer digits, or without the fraction, a digit or a point comes next.
MultiplierMatch(str) ==
    LET starts == {p \in 1 .. Len(str) :
                      Digit(str[p]) /\ SpacesThenX(str, NumberEnd(str, p))}
    IN IF starts = {} THEN None
       ELSE Some(CHOOSE p \in starts : \A r \in starts : p <= r)

\* The multiplier taken for the percentage as it is: value * 100.
MultiplierToPercentNoOffset(v) == <<v[1] * 100, v[2]>>

\* (float(match.group(1)) - 1) * 100.
MultiplierToPercent(v) == <<(v[1] - v[2]) * 100, v[2]>>

\* The complexity phrases: 50.0, 75.0, or the default 0.0.
ComplexityImprovement(low) ==
    IF /\ Contains(low, <<"o", "(">>)
       /\ Contains(low, <<"n", "²">>) \/ Contains(low, <<"n", "^", "2">>)
    THEN IF Contains(low, <<"n", " ", "l", "o", "g", " ", "n">>) THEN <<50, 1>>
         ELSE IF Contains(low, <<"o", "(", "n", ")">>) THEN <<75, 1>>
         ELSE <<0, 1>>
    ELSE <<0, 1>>

\* _parse_improvement: with a '%' in the string the leftmost number of the
\* string; else with an x the leftmost number followed by x, as a
\* multiplier; else a complexity phrase; else 0.0.
ParseImprovement(str) ==
    LET low == Lower(str) IN
    IF Contains(str, <<"%">>) /\ FirstNumber(str) # None
    THEN FloatOf(str, FirstNumber(str)[1])
    ELSE IF Contains(low, <<"x">>) /\ MultiplierMatch(low) # None
         THEN MultiplierToPercent(FloatOf(low, MultiplierMatch(low)[1]))
         ELSE ComplexityImprovement(low)

ParseInit ==
    /\ RunInit("idle")
    /\ num_agents = 1
    /\ use_virtual_forks
    /\ SelIdle /\ FmIdle /\ TasksIdle /\ CmIdle /\ HsIdle /\ CompIdle
    /\ improvement_str \in Strings(MaxLen)
    /\ parsed = None

\* improvement = self._parse_improvement(improvement_str).
CallParseImprovement ==
    /\ parsed = None
    /\ parsed' = Some(ParseImprovement(improvement_str))
    /\ UNCHANGED <<runVars, selVars, fmVars, tasks, cmVars, hs,
                   improvement_str, compVars>>

ParseNext == CallParseImprovement

ParseSpec == ParseInit /\ [][ParseNext]_vars

\* ------------------------------------------- the construction of the agents
\* `for i, fork_id in enumerate(fork_ids)` of run_optimization on its own:
\* the coordinator holds the list create_parallel_forks returned for a
\* request of `requested` environments, and builds its agents from it.  The
\* free tier obtains every requested fork; the paid tier those of the
\* indices whose create_fork succeeded, and the run goes on only with one.
ObtainedLists(n) ==
    {SuccessfulForks(0, n, ForkOutcomes(n, S)) :
        S \in IF use_virtual_forks THEN {0 .. (n - 1)}
              ELSE SUBSET (0 .. (n - 1)) \ {{}}}

AssignInit ==
    /\ RunInit("idle")
    /\ num_agents = 1
    /\ SelIdle /\ FmIdle /\ TasksIdle /\ CmIdle /\ HsIdle /\ ParseIdle
    /\ GsIdle /\ ViewIdle
    /\ \E n \in 1 .. MaxRequested : \E ids \in ObtainedLists(n) :
         built = [pc |-> "build", requested |-> n, fork_ids |-> ids,
                  agents |-> <<>>]

\* The loop that builds the agents, up to the call of gather.
BuildAgents ==
    /\ built.pc = "build"
    /\ built' = [built EXCEPT !.pc = "built",
                              !.agents = NewAgents(built.fork_ids)]
    /\ UNCHANGED <<runVars, selVars, fmVars, tasks, cmVars, hs, parseVars, gs,
                   view>>

AssignNext == BuildAgents

AssignSpec == AssignInit /\ [][AssignNext]_vars

\* ------------------------------------- the agents of a task on the event loop
\* `await asyncio.gather(*[agent.optimize(code, task_id) ...])` and what
\* follows it, with the points at which optimize gives the event loop up.
\* The loop has one thread.  optimize awaits the queries of hybrid_search
\* and its INSERT statements, which suspend it; generate_embedding and
\* optimize_code are `async def` but call client.models.embed_content and
\* client.models.generate_content, the synchronous client, with no await:
\* from the call to its return the thread is inside it.  gs.phase is the
\* position of each agent: "created" (its task is scheduled), "embedding"
\* and "generating" (inside the synchronous call), "searching", "storing"
\* and "storing_failed" (suspended in an await) and "ended".  gs.finished
\* is history: the agents in the order in which their optimize returned.
LoopAgents == 0 .. (gs.n - 1)

\* The agent is inside a synchronous call; no agent is.
InCall(a) == gs.phase[a] \in {"embedding", "generating"}
LoopFree == \A a \in LoopAgents : ~InCall(a)

GsInit ==
    /\ RunInit("idle")
    /\ num_agents = 1
    /\ use_virtual_forks
    /\ SelIdle /\ FmIdle /\ TasksIdle /\ CmIdle /\ HsIdle /\ ParseIdle
    /\ BuiltIdle /\ ViewIdle
    /\ \E n \in 1 .. MaxLoopAgents :
         gs = [pc |-> "gather", n |-> n,
               phase |-> [a \in 0 .. (n - 1) |-> "created"],
               status |-> [a \in 0 .. (n - 1) |-> "none"],
               hung |-> FALSE, finished |-> <<>>, ri |-> 0, events |-> <<>>,
               task_status |-> "running", released |-> FALSE, faults |-> {}]

GsFrame == <<runVars, selVars, fmVars, tasks, cmVars, hs, parseVars, built,
             view>>

\* The task of agent a runs for the first time, the tasks in the order
\* gather created them: optimize calls hybrid_search, which calls
\* generate_embedding, which enters embed_content.
GsStart(a) ==
    /\ gs.pc = "gather" /\ LoopFree
    /\ gs.phase[a] = "created"
    /\ \A b \in LoopAgents : b < a => gs.phase[b] # "created"
    /\ gs' = [gs EXCEPT !.phase[a] = "embedding"]
    /\ UNCHANGED GsFrame

\* embed_content returns or raises (generate_embedding then returns None):
\* hybrid_search awaits a query, its own or that of bm25_search.
GsEmbedReturn(a) ==
    /\ gs.phase[a] = "embedding"
    /\ gs' = [gs EXCEPT !.phase[a] = "searching"]
    /\ UNCHANGED GsFrame

\* The search is over (it raises nothing): optimize builds its prompt and
\* calls optimize_code, which enters generate_content.  The call returns in
\* the end, or it never does.
GsSearchDone(a) ==
    /\ LoopFree
    /\ gs.phase[a] = "searching"
    /\ \E hangs \in BOOLEAN :
         gs' = [gs EXCEPT !.phase[a] = "generating", !.hung = hangs]
    /\ UNCHANGED GsFrame

\* generate_content returns or raises (optimize_code then returns the
\* record it wraps the error in): optimize awaits the INSERT of its row.
GsGenerateReturn(a) ==
    /\ gs.phase[a] = "generating" /\ ~gs.hung
    /\ gs' = [gs EXCEPT !.phase[a] = "storing"]
    /\ UNCHANGED GsFrame

\* optimize returns a descriptor of this status.
GsEnd(a, status) ==
    [gs EXCEPT !.phase[a] = "ended", !.status[a] = status,
               !.finished = Append(@, a)]

\* The INSERT of the completed row returns and optimize returns; or it
\* raises and the except clause awaits the INSERT of the failure record.
GsStoreDone(a) ==
    /\ LoopFree
    /\ gs.phase[a] = "storing"
    /\ \E ok \in BOOLEAN :
         gs' = IF ok THEN GsEnd(a, "completed")
               ELSE [gs EXCEPT !.phase[a] = "storing_failed"]
    /\ UNCHANGED GsFrame

\* The INSERT of the failure record returns or raises; optimize returns.
GsStoreFailedDone(a) ==
    /\ LoopFree
    /\ gs.phase[a] = "storing_failed"
    /\ gs' = GsEnd(a, "failed")
    /\ UNCHANGED GsFrame

\* gather returns once every agent has ended.
GsGatherDone ==
    /\ gs.pc = "gather"
    /\ \A a \in LoopAgents : gs.phase[a] = "ended"
    /\ gs' = [gs EXCEPT !.pc = "results"]
    /\ UNCHANGED GsFrame

\* One turn of `for result in results`, the list in agent order: the
\* descriptor is broadcast, and the broadcast may raise.
GsBroadcastResult ==
    /\ gs.pc = "results"
    /\ gs.ri < gs.n
    /\ \E ok \in BOOLEAN :
         gs' = [gs EXCEPT
                  !.ri = @ + 1,
                  !.events = Append(@, [type |-> "agent_completed",
                                        agent_id |-> gs.ri,
                                        status |-> gs.status[gs.ri]]),
                  !.pc = IF ok THEN "results" ELSE "handler",
                  !.faults = IF ok THEN @ ELSE @ \cup {"bc_agent"}]
    /\ UNCHANGED GsFrame

\* The rest of the try block: the winner is selected and looked up, the
\* task is persisted as completed, complete is broadcast and cleanup_forks
\* is called; the lookup, the UPDATE or the broadcast may raise.
GsComplete ==
    /\ gs.pc = "results"
    /\ gs.ri = gs.n
    /\ \E how \in {"ok", "persist", "bc_complete"} :
         gs' = CASE how = "ok" ->
                      [gs EXCEPT !.pc = "done", !.task_status = "completed",
                                 !.events = Append(@, [type |-> "complete"]),
                                 !.released = TRUE]
                 [] how = "persist" ->
                      [gs EXCEPT !.pc = "handler",
                                 !.faults = @ \cup {"persist"}]
                 [] how = "bc_complete" ->
                      [gs EXCEPT !.pc = "handler", !.task_status = "completed",
                                 !.events = Append(@, [type |-> "complete"]),
                                 !.faults = @ \cup {"bc_complete"}]
    /\ UNCHANGED GsFrame

\* The except clause: the task is persisted as failed and error is
\* broadcast; the UPDATE or the broadcast may raise.
GsHandler ==
    /\ gs.pc = "handler"
    /\ \E how \in {"ok", "handler_persist", "handler_broadcast"} :
         gs' = CASE how = "ok" ->
                      [gs EXCEPT !.pc = "done", !.task_status = "failed",
                                 !.events = Append(@, [type |-> "error"])]
                 [] how = "handler_persist" ->
                      [gs EXCEPT !.pc = "done",
                                 !.faults = @ \cup {"handler_persist"}]
                 [] how = "handler_broadcast" ->
                      [gs EXCEPT !.pc = "done", !.task_status = "failed",
                                 !.events = Append(@, [type |-> "error"]),
                                 !.faults = @ \cup {"handler_broadcast"}]
    /\ UNCHANGED GsFrame

\* A step of the optimize call of agent a.
GsAgentStep(a) ==
    \/ GsStart(a)
    \/ GsEmbedReturn(a)
    \/ GsSearchDone(a)
    \/ GsGenerateReturn(a)
    \/ GsStoreDone(a)
    \/ GsStoreFailedDone(a)

GsNext ==
    \/ \E a \in LoopAgents : GsStart(a)
    \/ \E a \in LoopAgents : GsEmbedReturn(a)
    \/ \E a \in LoopAgents : GsSearchDone(a)
    \/ \E a \in LoopAgents : GsGenerateReturn(a)
    \/ \E a \in LoopAgents : GsStoreDone(a)
    \/ \E a \in LoopAgents : GsStoreFailedDone(a)
    \/ GsGatherDone
    \/ GsBroadcastResult
    \/ GsComplete
    \/ GsHandler

GatherSpec == GsInit /\ [][GsNext]_vars

\* The event loop runs whatever is ready: a step that stays possible is
\* taken in the end.
GatherFairSpec == GsInit /\ [][GsNext]_vars /\ WF_vars(GsNext)

\* ------------------------------------------ get_task_status on its own
\* get_task_status(task_id) asked about a completed task.  sel_in holds what
\* the agents of the task returned, in agent order, and sel_out the winner
\* run_optimization selected from it, announced in complete and recorded (the
\* id of that agent's row) in best_result_id.  The agent_results table holds
\* a row per agent: of a completed agent with its improvement_percent, of a
\* failed agent with NULL in that column.
ResultLists(n) ==
    UNION {{[k \in 1 .. m |-> SelDescriptor(k, f[k])] : f \in [1 .. m -> SelOutcomes]}
           : m \in 1 .. n}

\* improvement_percent of the row of the k-th agent: NULL is None.
RowImprovement(rs, k) ==
    IF rs[k].status = "completed" THEN Some(rs[k].improvement_percent)
    ELSE None

\* ORDER BY improvement_percent DESC NULLS LAST: the orders in which the
\* query may return the rows (as positions in rs).  Rows of equal
\* improvement come in any order: the query names no second key.
RowOrders(rs) ==
    {q \in [1 .. Len(rs) -> 1 .. Len(rs)] :
        /\ \A i, j \in 1 .. Len(rs) : i # j => q[i] # q[j]
        /\ \A i, j \in 1 .. Len(rs) :
             i < j =>
                \/ RowImprovement(rs, q[j]) = None
                \/ /\ RowImprovement(rs, q[i]) # None
                   /\ RowImprovement(rs, q[i])[1] >= RowImprovement(rs, q[j])[1]}

\* `if result['improvement_percent'] and result['improvement_percent'] > 0`.
Qualifies(imp) == imp # None /\ imp[1] # 0 /\ imp[1] > 0

\* The loop of get_task_status over the rows from the i-th on: the agent of
\* the first row that qualifies, None when there is none.
RECURSIVE FirstQualifying(_, _, _)
FirstQualifying(rs, q, i) ==
    IF i > Len(q) THEN None
    ELSE IF Qualifies(RowImprovement(rs, q[i]))
         THEN Some(rs[q[i]].agent_id)
         ELSE FirstQualifying(rs, q, i + 1)

StatusInit ==
    /\ RunInit("idle")
    /\ use_virtual_forks
    /\ num_agents = 1
    /\ sel_in \in ResultLists(MaxRows)
    /\ sel_out = None
    /\ FmIdle /\ TasksIdle /\ CmIdle /\ HsIdle /\ ParseIdle
    /\ GsIdle /\ BuiltIdle /\ ViewIdle

\* get_task_status runs after the task completed: the rows are fetched and
\* the best result is looked for among them.
GetTaskStatus ==
    /\ sel_out # None
    /\ view.pc = "idle"
    /\ \E q \in RowOrders(sel_in) :
         view' = [pc |-> "returned",
                  agent_results |-> [i \in 1 .. Len(q) |-> sel_in[q[i]].agent_id],
                  best_result |-> FirstQualifying(sel_in, q, 1)]
    /\ UNCHANGED <<runVars, selVars, fmVars, tasks, cmVars, hs, parseVars, gs,
                   built>>

StatusNext ==
    \/ SelectWinner
    \/ GetTaskStatus

StatusSpec == StatusInit /\ [][StatusNext]_vars

\* =================================================================== claims
HasEvent(t) == \E k \in 1 .. Len(events) : events[k].type = t
RunEnded == pc = "done" /\ outcome \in {"returned", "raised"}
Completed(r) == r.status = "completed"

\* C1: a run that obtained at least one environment has, by the time it
\* ends, called cleanup_forks with every obtained fork id, also when a
\* coordinator step after provisioning raised.
C1_ReleaseRequested ==
    RunEnded /\ fork_ids # <<>> =>
        cleanup_arg # None /\ Range(cleanup_arg[1]) = Range(fork_ids)

\* C2: when a run with M >= 1 obtained environments ends and no coordinator
\* step failed, exactly M agents were built, one per obtained environment,
\* each ran to its end, each obtained environment was released exactly once
\* (and no other), and the bookkeeping is empty, whichever agents failed.
C2_AgentsAndReleases ==
    pc = "done" /\ fork_ids # <<>> /\ faults = {} =>
        /\ Len(fork_ids) <= num_agents
        /\ Len(agents) = Len(fork_ids)
        /\ AgentIds = 0 .. (Len(fork_ids) - 1)
        /\ \A a \in AgentIds :
             agent_state[a].pc = "returned" /\ ForkOf(a) = fork_ids[a + 1]
        /\ \A i \in Indices :
             deleted[i] = IF ForkName(i) \in Range(fork_ids) THEN 1 ELSE 0
        /\ forks = {}

\* A run without a coordinator fault ended with fewer environments than
\* requested, one agent failed and one completed.
C2_Witness ==
    /\ pc = "done" /\ faults = {}
    /\ Len(fork_ids) >= 2 /\ Len(fork_ids) < num_agents
    /\ \E a \in AgentIds : agent_state[a].ret[1].status = "failed"
    /\ \E a \in AgentIds : agent_state[a].ret[1].status = "completed"
    /\ \A i \in Indices : deleted[i] <= 1

StatusRank(s) ==
    CASE s = "none" -> 0 [] s = "pending" -> 1 [] s = "running" -> 2
      [] OTHER -> 3

\* C3: the persisted status of a task never goes backwards, and once it is
\* completed or failed no step writes a different value.
C3_StatusMonotonic ==
    [][/\ StatusRank(task_status') >= StatusRank(task_status)
       /\ task_status \in {"completed", "failed"} => task_status' = task_status]_vars

\* C4: run_optimization never lets an exception out: when it ends it has
\* returned, and if any step of it raised, the task is persisted as failed
\* and an error event was broadcast.
C4_NeverRaises ==
    pc = "done" /\ outcome # "rejected" =>
        /\ outcome = "returned"
        /\ exc # None => task_status = "failed" /\ HasEvent("error")

\* C5: a winner is recorded, in the task row and in the complete event, only
\* for a result that is completed with an improvement above zero.
C5_WinnerPositive ==
    /\ best_result_id # None =>
         \E row \in Range(agent_rows[best_result_id[1]]) :
            Completed(row) /\ row.improvement_percent > 0
    /\ \A k \in 1 .. Len(events) :
         events[k].type = "complete" /\ events[k].best_result # None =>
            /\ Completed(events[k].best_result[1])
            /\ events[k].best_result[1].improvement_percent > 0

\* The improvements of a result list, a failed result shown as "failed".
Shape(rs) ==
    [k \in 1 .. Len(rs) |->
        IF Completed(rs[k]) THEN Some(rs[k].improvement_percent) ELSE None]

\* C6: the selected winner is a completed result of the list with the
\* greatest improvement of the completed ones, the earliest of those that
\* share it; a winner is selected exactly when some completed result has an
\* improvement above the search's starting value, so whenever one is above
\* zero; [30, 30, 45, -5, failed] selects the 45 and [30, 30] the first.
C6_WinnerIsFirstGreatest ==
    sel_out # None =>
        LET w == sel_out[1] IN
        /\ w # None =>
             /\ Completed(w[1])
             /\ sel_in[w[1].agent_id + 1] = w[1]
             /\ \A k \in 1 .. Len(sel_in) :
                  Completed(sel_in[k]) =>
                     /\ sel_in[k].improvement_percent <= w[1].improvement_percent
                     /\ sel_in[k].improvement_percent = w[1].improvement_percent
                          => k >= w[1].agent_id + 1
        /\ w # None <=>
             \E k \in 1 .. Len(sel_in) :
                /\ Completed(sel_in[k])
                /\ sel_in[k].improvement_percent > InitialBestImprovement
        /\ (\E k \in 1 .. Len(sel_in) :
               Completed(sel_in[k]) /\ sel_in[k].improvement_percent > 0)
             => w # None
        /\ Shape(sel_in) = <<Some(30), Some(30), Some(45), Some(-5), None>>
             => w # None /\ w[1].agent_id = 2
        /\ Shape(sel_in) = <<Some(30), Some(30)>>
             => w # None /\ w[1].agent_id = 0

\* The selection ran on [30, 30, 45, -5, failed] and picked the third result.
C6_Witness ==
    /\ sel_out # None
    /\ Shape(sel_in) = <<Some(30), Some(30), Some(45), Some(-5), None>>
    /\ sel_out[1] # None /\ sel_out[1][1].improvement_percent = 45

\* C7: when provisioning returned no environment, the run ends with the task
\* persisted as failed and an error event broadcast, no forks_created event
\* was emitted and no agent was built or run.
C7_ZeroForksFails ==
    pc = "done" /\ exc = Some("Failed to create any forks") =>
        /\ task_status = "failed"
        /\ HasEvent("error")
        /\ ~HasEvent("forks_created")
        /\ agents = <<>> /\ AgentIds = {}

\* C8: a run that obtained an environment and whose persistence and broadcast
\* calls all succeeded ends completed, whatever the agents' outcomes; with
\* those calls succeeding, failed is reached only with no environment.
C8_CompletedDespiteAgentFailures ==
    /\ pc = "done" /\ fork_ids # <<>> /\ faults \subseteq {"cleanup"}
         => task_status = "completed"
    /\ task_status = "failed" /\ faults \subseteq {"cleanup"}
         => fork_ids = <<>> /\ exc = Some("Failed to create any forks")

\* A run without a coordinator fault ended completed although each of its
\* two or more agents failed.
C8_Witness ==
    /\ pc = "done" /\ faults = {} /\ task_status = "completed"
    /\ Len(agents) >= 2
    /\ \A a \in AgentIds : agent_state[a].ret[1].status = "failed"

\* C9: optimize never raises: an agent that has ended has returned a
\* descriptor; an exception raised in the try block (the insert of the
\* completed row) leads into the except clause, and the except clause, also
\* when the insert of the failure record raises, returns a descriptor of
\* status failed carrying the message of the exception.
C9_OptimizeNeverRaises ==
    /\ [](\A a \in AgentIds :
            /\ agent_state[a].pc # "raised"
            /\ agent_state[a].pc = "returned" =>
                 /\ agent_state[a].ret # None
                 /\ agent_state[a].ret[1].status \in {"completed", "failed"})
    /\ [][\A a \in AgentIds :
            /\ agent_state[a].pc = "store" /\ agent_state'[a].pc # "store" =>
                 \/ /\ agent_state'[a].pc = "returned"
                    /\ agent_state'[a].ret[1].status = "completed"
                 \/ /\ agent_state'[a].pc = "store_failed"
                    /\ agent_state'[a].exc # None
            /\ agent_state[a].pc = "store_failed"
               /\ agent_state'[a].pc # "store_failed" =>
                 /\ agent_state'[a].pc = "returned"
                 /\ agent_state'[a].ret[1].status = "failed"
                 /\ agent_state'[a].ret[1].error = agent_state[a].exc[1]]_vars

\* An agent whose two inserts both raised has returned a failed descriptor
\* with the message of the first exception.
C9_Witness ==
    \E a \in AgentIds :
        /\ agent_state[a].pc = "returned"
        /\ agent_state[a].ret[1].status = "failed"
        /\ agent_state[a].ret[1].error = "db_error"
        /\ agent_rows[a] = <<>>

\* C10 as stated: an agent that has ended has exactly one row.
C10_ExactlyOneRow ==
    \A a \in AgentIds :
        agent_state[a].pc = "returned" => Len(agent_rows[a]) = 1

\* C10, amended: an agent has at most one row at any time; when it returns
\* completed it has exactly one, a completed one with its improvement; when
\* it returns failed it has one failed row carrying its error, or none (the
\* insert of the failure record failed); and no step changes or removes a
\* row once inserted.
C10_AtMostOneRowWriteOnce ==
    /\ [](\A a \in AgentIds :
            /\ Len(agent_rows[a]) <= 1
            /\ agent_state[a].pc # "returned" => agent_rows[a] = <<>>
            /\ agent_state[a].pc = "returned" =>
                 LET r == agent_state[a].ret[1] IN
                 /\ Completed(r) =>
                      /\ Len(agent_rows[a]) = 1
                      /\ Completed(agent_rows[a][1])
                      /\ agent_rows[a][1].improvement_percent = r.improvement_percent
                 /\ ~Completed(r) =>
                      \A row \in Range(agent_rows[a]) :
                         row.status = "failed" /\ row.error_message = r.error)
    /\ [][\A a \in DOMAIN agent_rows :
            /\ Len(agent_rows'[a]) >= Len(agent_rows[a])
            /\ SubSeq(agent_rows'[a], 1, Len(agent_rows[a])) = agent_rows[a]]_vars

\* An agent whose completed insert raised has returned failed and has its one
\* failed row, while another agent has its one completed row.
C10_Witness ==
    /\ \E a \in AgentIds :
         /\ agent_state[a].pc = "returned"
         /\ agent_state[a].ret[1].status = "failed"
         /\ Len(agent_rows[a]) = 1 /\ agent_rows[a][1].status = "failed"
    /\ \E a \in AgentIds :
         /\ agent_state[a].pc = "returned"
         /\ agent_state[a].ret[1].status = "completed"
         /\ Len(agent_rows[a]) = 1

\* C11: an agent whose generation call failed, or whose response could not
\* be parsed, ends failed: it returns no completed descriptor (and so has no
\* completed row, which is written only on the way to one), and it is not
\* the run's winner.  A completed descriptor carries the outcome of the
\* generation call in its explanation.
C11_GenerationFailureFails ==
    /\ \A a \in AgentIds :
          agent_state[a].pc = "returned" /\ Completed(agent_state[a].ret[1]) =>
             agent_state[a].ret[1].explanation # "api_error"
    /\ best_result # None => best_result[1].explanation # "api_error"

\* create_parallel_forks has just returned to run_optimization.
ForksReturned ==
    \/ pc = "bc_forks"
    \/ pc = "handler" /\ exc = Some("Failed to create any forks")

\* C12: create_parallel_forks(n) does not raise (the one exception of the
\* provisioning step is the caller's own, on an empty result) and returns at
\* most n handles.  On the free tier it returns n pairwise distinct handles.
\* On the paid tier every create_fork has ended, the result holds exactly
\* the handles of the calls that succeeded, in request-index order, and the
\* bookkeeping holds the returned handles and no other.
C12_ProvisioningResult ==
    /\ "forking" \notin faults
    /\ ForksReturned =>
          /\ Len(fork_ids) <= num_agents
          /\ pc = "handler" => fork_ids = <<>>
          /\ \A j, k \in 1 .. Len(fork_ids) : j # k => fork_ids[j] # fork_ids[k]
          /\ use_virtual_forks => Len(fork_ids) = num_agents
          /\ \A i \in Indices :
                /\ fork_state[i] \in {"ok", "failed"}
                /\ fork_state[i] = "ok" <=> ForkName(i) \in Range(fork_ids)
          /\ \A j, k \in 1 .. Len(fork_ids) :
                j < k => fork_ids[j][2] < fork_ids[k][2]
          /\ forks = Range(fork_ids)

\* On the paid tier, of three requested forks the middle one failed and the
\* other two were returned.
C12_Witness ==
    /\ pc = "bc_forks"
    /\ ~use_virtual_forks
    /\ num_agents = 3
    /\ fork_state[1] = "failed"
    /\ fork_ids = <<ForkName(0), ForkName(2)>>

\* C13: delete_fork of a handle the ForkManager does not track (released
\* before, or never provisioned) is a no-op: it does not raise, it leaves
\* the bookkeeping as it was and it runs no external delete command.
C13_DeleteIdempotent ==
    fm_last # None /\ fm_last[1].op = "delete_fork" /\ ~fm_last[1].tracked =>
        /\ ~fm_last[1].raised
        /\ fm_forks = fm_last[1].before
        /\ ~fm_last[1].issued

\* C14: at any moment no two active agents, of the same task or of two
\* tasks running at once, are bound to the same fork_id.
C14_NoSharedForkId ==
    \A t1, t2 \in DOMAIN tasks :
       \A a1 \in tasks[t1].active, a2 \in tasks[t2].active :
          <<t1, a1>> # <<t2, a2>> =>
             tasks[t1].fork_ids[a1 + 1] # tasks[t2].fork_ids[a2 + 1]

\* A broadcast call has ended; the subscriber list of the task when it was
\* called and when it ended; the subscribers whose send failed.
BcEnded == bc.pc \in {"done", "raised"}
ListOf(conns) == IF TaskKey \in DOMAIN conns THEN conns[TaskKey] ELSE <<>>
StartList == ListOf(bc.before)
AfterList == ListOf(bc.after)
FailedSends == Range(bc.disconnected)

\* C15: whatever connects and disconnects while a broadcast is suspended in
\* its sends, the broadcast does not raise, it has sent (or tried to send)
\* the event to every subscriber that was registered when it was called and
\* did not disconnect before it ended, and such a subscriber is off the
\* registry afterwards only if its send failed.
C15_BroadcastUnderInterleaving ==
    BcEnded =>
        /\ bc.pc = "done"
        /\ \A ws \in Range(StartList) \ bc.left :
              /\ ws \in bc.delivered \cup FailedSends
              /\ ws \notin Range(AfterList) => ws \in FailedSends

\* C16: a broadcast during which nothing connected or disconnected does not
\* raise; the event is delivered to exactly the subscribers whose send did
\* not fail; the registry afterwards is the one before without the failed
\* ones, the others in their order; with no subscriber nothing changes.
C16_SequentialBroadcast ==
    BcEnded /\ bc.left = {} /\ bc.joined = {} =>
        /\ bc.pc = "done"
        /\ FailedSends \subseteq Range(StartList)
        /\ bc.delivered = Range(StartList) \ FailedSends
        /\ AfterList = SelectSeq(StartList, LAMBDA ws : ws \notin FailedSends)
        /\ StartList = <<>> => bc.after = bc.before /\ bc.delivered = {}

\* Three subscribers, nothing interfered, exactly one send failed: the
\* other two got the event and are the registry.
C16_Witness ==
    /\ BcEnded /\ bc.left = {} /\ bc.joined = {}
    /\ Len(StartList) = 3
    /\ Len(bc.disconnected) = 1
    /\ Cardinality(bc.delivered) = 2
    /\ Len(AfterList) = 2

\* The steps of a hybrid_search call that failed on its way to the fusion.
HsDegraded ==
    hs.trace \cap {"no_embedding", "lex_raised", "vec_raised", "fusion_raised"}

\* C17: hybrid_search never raises.  When no embedding was generated, or
\* the lexical query, the vector query or the fusion raised, it returns
\* what the lexical-only fallback returned (at most limit rows), and not a
\* fused list; when the fallback query raised too it returns the empty list;
\* only a call none of whose steps failed returns the fused list.
C17_SearchNeverRaises ==
    /\ hs.pc # "raised"
    /\ hs.pc = "returned" =>
          /\ Len(hs.out) <= hs.limit
          /\ HsDegraded # {} /\ "fallback_raised" \notin hs.trace =>
                hs.via = "lexical_only"
          /\ "fallback_raised" \in hs.trace =>
                HsDegraded # {} /\ hs.via = "empty" /\ hs.out = <<>>
          /\ HsDegraded = {} => hs.via = "fused"

\* The vector query raised and the fallback returned rows.
C17_Witness ==
    /\ hs.pc = "returned"
    /\ hs.trace = {"vec_raised"}
    /\ hs.via = "lexical_only"
    /\ hs.out # <<>>

\* The call fused the lexical ranks {A: 1, B: 2} with the vector ranks
\* {B: 1, C: 2}; A, B and C are the rows 1, 2 and 3.
FusionExample ==
    /\ hs.pc = "returned" /\ hs.via = "fused"
    /\ hs.lex = <<1, 2>> /\ hs.vec = <<2, 3>>
ExampleScore(id) == RrfScore(hs.lex, hs.vec, id)

\* C20 as stated: B is first, with the fused score 1/61 + 1/60; A has 1/61
\* and C has 1/62.
C20_FusionExampleAsStated ==
    FusionExample =>
        /\ hs.out[1] = 2
        /\ RatEq(ExampleScore(2), RatAdd(<<1, 61>>, <<1, 60>>))
        /\ RatEq(ExampleScore(1), <<1, 61>>)
        /\ RatEq(ExampleScore(3), <<1, 62>>)

\* C20, amended: B is first, with the fused score 1/62 + 1/61 (rank 2 in
\* the lexical list, rank 1 in the vector list); A has 1/61 and C has 1/62,
\* so that A is ahead of C and the order is B, A, C, cut to limit.
C20_FusionExample ==
    FusionExample =>
        /\ RatEq(ExampleScore(2), RatAdd(<<1, 62>>, <<1, 61>>))
        /\ RatEq(ExampleScore(1), <<1, 61>>)
        /\ RatEq(ExampleScore(3), <<1, 62>>)
        /\ RatLess(ExampleScore(3), ExampleScore(1))
        /\ RatLess(ExampleScore(1), ExampleScore(2))
        /\ hs.out = Top(<<2, 1, 3>>, hs.limit)

\* The example was fused with limit 3 and all three rows were returned.
C20_Witness ==
    /\ FusionExample
    /\ hs.limit = 3
    /\ hs.out = <<2, 1, 3>>

\* Where the numbers of a string that are immediately followed by the
\* character c start; the first of them; the number a string starts with.
NumbersBefore(str, c) ==
    {p \in 1 .. Len(str) :
        /\ Digit(str[p])
        /\ NumberEnd(str, p) < Len(str)
        /\ str[NumberEnd(str, p) + 1] = c}
FirstBefore(str, c) ==
    CHOOSE p \in NumbersBefore(str, c) : \A r \in NumbersBefore(str, c) : p <= r
StartsWithNumberAnd(str, c) == 1 \in NumbersBefore(str, c)

\* C18: for a string with a number immediately followed by '%' the parser
\* returns the first such number, not an earlier number of the string; in
\* particular, for a string that starts with a number immediately followed
\* by '%' it returns that number.
C18_PercentNumber ==
    parsed # None =>
        /\ NumbersBefore(improvement_str, "%") # {} =>
              RatEq(parsed[1],
                    FloatOf(improvement_str, FirstBefore(improvement_str, "%")))
        /\ StartsWithNumberAnd(improvement_str, "%") =>
              RatEq(parsed[1], FloatOf(improvement_str, 1))

\* (number - 1) * 100 for the number a string starts with.
LeadingMultiplierPercent(str) ==
    LET v == FloatOf(str, 1) IN <<100 * v[1] - 100 * v[2], v[2]>>

CompletedAgents ==
    {a \in AgentIds : agent_state[a].pc = "returned"
                      /\ Completed(agent_state[a].ret[1])}
WinnersByIndex ==
    {a \in CompletedAgents :
        /\ agent_state[a].ret[1].improvement_percent > InitialBestImprovement
        /\ \A b \in CompletedAgents :
             \/ agent_state[b].ret[1].improvement_percent
                  < agent_state[a].ret[1].improvement_percent
             \/ /\ agent_state[b].ret[1].improvement_percent
                     = agent_state[a].ret[1].improvement_percent
                /\ b >= a}

\* C21: the winner is a function of the outcomes of the agent indices alone:
\* under every interleaving of the agents' steps the selected winner, the
\* winner in the complete event and the winner persisted with the completed
\* task are the descriptor (and row) of the lowest-indexed agent with the
\* greatest completed improvement, and none when no agent has one.
C21_WinnerIndependentOfInterleaving ==
    /\ best_result # None =>
         /\ WinnersByIndex = {best_result[1].agent_id}
         /\ best_result[1] = agent_state[best_result[1].agent_id].ret[1]
    /\ \A k \in 1 .. Len(events) :
         events[k].type = "complete" =>
            IF WinnersByIndex = {} THEN events[k].best_result = None
            ELSE /\ events[k].best_result # None
                 /\ WinnersByIndex = {events[k].best_result[1].agent_id}
    /\ task_status = "completed" =>
         IF WinnersByIndex = {} THEN best_result_id = None
         ELSE best_result_id # None /\ WinnersByIndex = {best_result_id[1]}

\* A completed run whose agents 0 and 1 both completed with the same greatest
\* improvement: agent 0 is the winner in the event and in the task.
C21_Witness ==
    /\ pc = "done" /\ task_status = "completed" /\ HasEvent("complete")
    /\ {0, 1} \subseteq CompletedAgents
    /\ agent_state[0].ret[1].improvement_percent = 30
    /\ agent_state[1].ret[1].improvement_percent = 30
    /\ best_result_id = Some(0)

\* An agent has reached its terminal outcome; the steps of one optimize call.
AgentEnded(a) == agent_state[a].pc \in {"returned", "raised"}
AgentStep(a) ==
    AgentSearch(a) \/ AgentGenerate(a) \/ AgentStore(a) \/ AgentStoreFailed(a)

\* C23: the agents of a run are isolated.  A step of one agent changes no
\* sibling's state; an agent that has ended stays as it ended; while the
\* coordinator awaits the gather, every agent that has not ended can take
\* its next step whatever became of its siblings; and the coordinator has
\* the gather's list, one entry per agent, only when all M agents have
\* ended, so selection and every agent_completed event come after that.
C23_AgentsIsolated ==
    /\ [][\A a \in AgentIds \cap DOMAIN agent_state' :
             /\ agent_state'[a] # agent_state[a] =>
                  \A b \in AgentIds \ {a} : agent_state'[b] = agent_state[b]
             /\ AgentEnded(a) => agent_state'[a] = agent_state[a]]_vars
    /\ [](pc = "gather" =>
             \A a \in AgentIds : ~AgentEnded(a) => ENABLED AgentStep(a))
    /\ [](results # <<>> \/ HasEvent("agent_completed") \/ best_result # None
             => /\ Len(results) = Len(agents)
                /\ \A a \in AgentIds : AgentEnded(a))

\* The coordinator holds the gather's list of three agents: one failed at
\* the insert of its row, one completed on a real answer, and the third
\* completed on the record a failed generation is wrapped in.
C23_Witness ==
    /\ pc = "results" /\ Len(results) = 3
    /\ results[1].status = "failed" /\ results[1].error = "db_error"
    /\ results[2].status = "completed" /\ results[2].explanation = "ok"
    /\ results[3].status = "completed" /\ results[3].explanation = "api_error"

\* C24: an agent whose generation and parsing succeeded but whose insert of
\* the completed row failed (it ended without a completed row) has still
\* returned a descriptor of status completed, so that it is broadcast as
\* such and is eligible in the winner search.
C24_InsertFailureKeepsResult ==
    \A a \in AgentIds :
        /\ agent_state[a].pc = "returned"
        /\ ~ \E row \in Range(agent_rows[a]) : Completed(row)
        => Completed(agent_state[a].ret[1])

\* The release of the handle of index i was attempted: on the free tier its
\* delete_fork ran, on the paid tier its delete_fork was started and ended,
\* with the delete command run or with the failure swallowed.
ReleaseAttempted(i) ==
    IF use_virtual_forks THEN deleted[i] >= 1 ELSE del_state[i] = "done"

\* C25: once cleanup_forks has been called and the run has ended, the
\* release of every handle of its argument was attempted, also when the
\* release of other handles failed; cleanup_forks raised nothing (the run
\* returned without entering its except clause), and no step taken during
\* cleanup_forks changes the persisted status of the task.
C25_CleanupAttemptsAll ==
    /\ [](cleanup_arg # None /\ pc = "done" =>
             /\ \A i \in Indices :
                  ForkName(i) \in Range(cleanup_arg[1]) => ReleaseAttempted(i)
             /\ outcome = "returned" /\ exc = None
             /\ task_status = "completed")
    /\ [][pc = "cleanup" =>
             /\ task_status' = task_status
             /\ pc' \in {"cleanup", "done"}]_vars

\* A paid-tier run ended after cleanup_forks released three handles: the
\* release of the first failed, those of the other two ran.
C25_Witness ==
    /\ pc = "done" /\ ~use_virtual_forks /\ cleanup_arg # None
    /\ Len(cleanup_arg[1]) = 3 /\ "cleanup" \in faults
    /\ deleted[0] = 0 /\ deleted[1] = 1 /\ deleted[2] = 1
    /\ task_status = "completed"

\* C26: in every reachable state of the ConnectionManager the task id is a
\* key of active_connections exactly when its list holds a subscriber: no
\* key maps to an empty list.  The subscribers of the list are pairwise
\* different websockets whose endpoint connected and has not ended.
C26_NoEmptySubscriberList ==
    /\ TaskKey \in DOMAIN active_connections
         <=> \E ws \in Sockets : ws \in Range(ListOf(active_connections))
    /\ TaskKey \in DOMAIN active_connections
         => active_connections[TaskKey] # <<>>
    /\ \A k \in 1 .. Len(ListOf(active_connections)) :
         /\ endpoints[ListOf(active_connections)[k]] = "open"
         /\ \A j \in 1 .. (k - 1) :
              ListOf(active_connections)[j] # ListOf(active_connections)[k]

\* A broadcast that started with two subscribers has ended: one of them
\* disconnected during it, the clean-up dropped the other, whose endpoint is
\* still open, and the key is gone.
C26_Witness ==
    /\ bc.pc = "done" /\ Len(ListOf(bc.before)) = 2
    /\ bc.left # {} /\ bc.disconnected # <<>>
    /\ active_connections = <<>>
    /\ \E ws \in Sockets : endpoints[ws] = "open"

\* What one ranked list contributes to the fused score of an id: 1/(60 + its
\* rank) when the list contains it, nothing otherwise; and the sum of the
\* contributions of the two lists of the search.
Contribution(rows, id) ==
    IF \E r \in 1 .. Len(rows) : rows[r] = id
    THEN <<1, RRFK + (CHOOSE r \in 1 .. Len(rows) : rows[r] = id)>>
    ELSE <<0, 1>>
FusedScore(id) == RatAdd(Contribution(hs.lex, id), Contribution(hs.vec, id))

\* C28: what a fused search returns is ordered by the sum, over the lists
\* that contain an id, of 1/(60 + rank), greatest first; it holds each id at
\* most once, only ids of the two lists, at most `limit` of them and as many
\* as there are when they are fewer; and no id left out has a greater sum
\* than one that is returned.
C28_FusedBySummedReciprocalRanks ==
    hs.pc = "returned" /\ hs.via = "fused" =>
        LET ids == Range(hs.lex) \cup Range(hs.vec) IN
        /\ \A p, q \in 1 .. Len(hs.out) :
             p < q => /\ hs.out[p] # hs.out[q]
                      /\ ~RatLess(FusedScore(hs.out[p]), FusedScore(hs.out[q]))
        /\ Range(hs.out) \subseteq ids
        /\ Len(hs.out) <= hs.limit
        /\ Len(hs.out) = IF Cardinality(ids) < hs.limit
                         THEN Cardinality(ids) ELSE hs.limit
        /\ \A id \in ids \ Range(hs.out) : \A p \in 1 .. Len(hs.out) :
             ~RatLess(FusedScore(hs.out[p]), FusedScore(id))

\* A search with limit 2 fused the lists [1, 2] and [3, 2]: the id of both
\* lists, second in each, comes first with 1/62 + 1/62; of the two ids with
\* 1/61 one is returned and the other is cut off.
C28_Witness ==
    /\ hs.pc = "returned" /\ hs.via = "fused" /\ hs.limit = 2
    /\ hs.lex = <<1, 2>> /\ hs.vec = <<3, 2>>
    /\ hs.out = <<2, 1>>

\* C27: the agent built for the i-th obtained environment (i from 0 over
\* the obtained list) has agent id i, that environment, and the strategy of
\* catalog index i mod K, K the size of the catalog: one agent per
\* environment, the strategies repeating with period K, whatever indices
\* the environments were requested with; three agents get 0, 1, 2.
C27_AgentAssignment ==
    built.pc = "built" =>
        /\ Len(built.agents) = Len(built.fork_ids)
        /\ \A i \in 0 .. (Len(built.agents) - 1) :
             /\ built.agents[i + 1].agent_id = i
             /\ built.agents[i + 1].fork_id = built.fork_ids[i + 1]
             /\ built.agents[i + 1].strategy \in 0 .. (NumStrategies - 1)
             /\ \E q \in 0 .. MaxRequested :
                  i = q * NumStrategies + built.agents[i + 1].strategy
             /\ i + NumStrategies < Len(built.agents) =>
                  built.agents[i + 1 + NumStrategies].strategy
                     = built.agents[i + 1].strategy
        /\ Len(built.agents) = 3 =>
             [k \in 1 .. 3 |-> built.agents[k].strategy] = <<0, 1, 2>>

\* Nine agents were built on the paid tier from a request of ten whose first
\* fork failed: the ninth agent, on fork 9, is agent 8 and has the strategy
\* of the first, more agents than the catalog has strategies.
C27_Witness ==
    /\ built.pc = "built" /\ ~use_virtual_forks
    /\ built.requested = 10 /\ Len(built.agents) = 9
    /\ built.fork_ids[1] = ForkName(1)
    /\ built.agents[9].fork_id = ForkName(9)
    /\ built.agents[9].agent_id = 8 /\ built.agents[9].strategy = 0

\* C22: the agent_completed events of a task are broadcast in the order in
\* which the agents finished: of two agents with an event each, the one
\* whose event comes first finished first.
C22_EventsInCompletionOrder ==
    \A p, q \in 1 .. Len(gs.events) :
        /\ p < q
        /\ gs.events[p].type = "agent_completed"
        /\ gs.events[q].type = "agent_completed"
        => \E i, j \in 1 .. Len(gs.finished) :
              /\ i < j
              /\ gs.finished[i] = gs.events[p].agent_id
              /\ gs.finished[j] = gs.events[q].agent_id

\* C29: the generation and the embedding request are suspension points:
\* while one agent is inside its generation or embedding call, every other
\* agent of the task that has not ended can take a step.
C29_CallsAreSuspensionPoints ==
    \A a, b \in LoopAgents :
        InCall(a) /\ b # a /\ gs.phase[b] # "ended" => ENABLED GsAgentStep(b)

\* C30: every started task ends in the end, and unless a step of the
\* coordinator itself failed, with a terminal status and its environments
\* released, also when the generation call of one of its agents never
\* returns.
C30_EveryTaskTerminates ==
    <>(/\ gs.pc = "done"
       /\ gs.faults = {} =>
             gs.task_status \in {"completed", "failed"} /\ gs.released)

\* The place of an event type in the order of a run's events.
EventRank(t) ==
    CASE t = "task_started" -> 0 [] t = "forks_created" -> 1
      [] t = "agent_completed" -> 2 [] t = "complete" -> 3 [] OTHER -> 4

\* The agents whose agent_completed event is among the first k events.
Announced(k) ==
    {events[j].data.agent_id :
        j \in {i \in 1 .. k : events[i].type = "agent_completed"}}

\* C31: the events of a run come in the order task_started, forks_created,
\* the agent_completed events, complete: the first of them is task_started,
\* no event of an earlier type follows one of a later type, and each type
\* but agent_completed occurs once at most.  forks_created carries the
\* number of obtained environments, at least one and at most the requested
\* number; the agent_completed events are of different agents that ran; and
\* complete is handed to the hub when every agent that ran has its
\* agent_completed event and the task is persisted as completed.
C31_EventOrder ==
    /\ [](/\ events # <<>> => events[1].type \in {"task_started", "error"}
          /\ \A p, q \in 1 .. Len(events) :
               p < q =>
                  /\ EventRank(events[p].type) <= EventRank(events[q].type)
                  /\ events[p].type = events[q].type
                       => /\ events[p].type = "agent_completed"
                          /\ events[p].data.agent_id # events[q].data.agent_id
          /\ \A k \in 1 .. Len(events) :
               /\ events[k].type = "forks_created" =>
                    /\ k = 2
                    /\ events[k].count = Len(fork_ids)
                    /\ events[k].count >= 1
                    /\ events[k].count <= events[k].requested
                    /\ events[k].requested = num_agents
               /\ events[k].type = "agent_completed" =>
                    events[k].data.agent_id \in AgentIds
               /\ events[k].type = "complete" =>
                    /\ k = Len(agents) + 3
                    /\ Announced(k) = AgentIds)
    /\ [][Len(events') > Len(events)
             /\ events'[Len(events')].type = "complete"
             => task_status = "completed" /\ task_status' = "completed"]_vars

\* A run that asked for three environments and obtained two has broadcast
\* its four kinds of events: five events, the last one complete.
C31_Witness ==
    /\ pc = "done" /\ num_agents = 3 /\ Len(fork_ids) = 2
    /\ [k \in 1 .. Len(events) |-> events[k].type]
         = <<"task_started", "forks_created", "agent_completed",
             "agent_completed", "complete">>
    /\ events[2].count = 2 /\ events[2].requested = 3

\* The positions of the terminal events among the events of the run.
TerminalEvents ==
    {k \in 1 .. Len(events) : events[k].type \in {"complete", "error"}}

\* C32: a run that has ended has broadcast exactly one terminal event,
\* complete or error, and the event agrees with the persisted status:
\* complete with completed, error with failed.
C32_OneTerminalEvent ==
    pc = "done" /\ outcome # "rejected" =>
        /\ Cardinality(TerminalEvents) = 1
        /\ \A k \in TerminalEvents :
             /\ events[k].type = "complete" => task_status = "completed"
             /\ events[k].type = "error" => task_status = "failed"

\* C33: in the complete event total_agents is the number of agents that ran
\* and successful_agents the number of them that returned a result of
\* status completed, so it is below total_agents when an agent failed.
C33_SuccessfulAgentsCount ==
    \A k \in 1 .. Len(events) :
        events[k].type = "complete" =>
            /\ events[k].total_agents = Cardinality(AgentIds)
            /\ events[k].successful_agents = Cardinality(CompletedAgents)
            /\ CompletedAgents # AgentIds
                 => events[k].successful_agents < events[k].total_agents

\* C34: the winner get_task_status returns for a completed task is the
\* result the coordinator selected, recorded and announced; it returns no
\* winner exactly when the coordinator selected none.
C34_StatusWinnerAgrees ==
    view.pc = "returned" =>
        /\ view.best_result = None <=> sel_out[1] = None
        /\ view.best_result # None /\ sel_out[1] # None
             => view.best_result[1] = sel_out[1][1].agent_id

\* C35: disconnect of a subscriber that is no longer registered raises
\* nothing: neither the disconnect an endpoint calls for a websocket that a
\* broadcast has pruned, nor the disconnect a broadcast's clean-up calls for
\* a websocket whose endpoint has removed it.
C35_DisconnectUnregisteredSafe ==
    /\ \A ws \in Sockets : endpoints[ws] # "raised"
    /\ bc.pc # "raised"

\* C36: when a run reaches cleanup_forks on the paid tier, where a release
\* issues a delete command for the name, none of the names it releases is
\* the environment of an agent of another run that is still inside optimize.
C36_ReleaseOnlyOwnForks ==
    [][\A t \in DOMAIN tasks :
          /\ ~use_virtual_forks
          /\ tasks[t].pc = "running" /\ tasks'[t].pc = "done"
          => \A u \in DOMAIN tasks \ {t} : \A a \in tasks[u].active :
                tasks[u].fork_ids[a + 1] \notin Range(tasks[t].fork_ids)]_vars

====
